---- MODULE Spec2Model ----
(***************************************************************************)
(* Authentication core of the blog API backend: the JWT engine             *)
(* (src/src/utils/jwt.ts, class JWT), the refresh-token registry           *)
(* (class TokenManager) and the GitHub OAuth state handshake               *)
(* (src/src/routes/articles.ts, src/src/routes/auth.ts).                   *)
(*                                                                         *)
(* The specifications sharing the module:                                  *)
(*   SpecJwt    - sign / verify as pure functions of the token and clock   *)
(*   SpecReg    - TokenManager with request handlers interleaved at their  *)
(*                await points                                             *)
(*   SpecOAuth  - issue / callback handlers over the shared KV store       *)
(*   SpecMgr    - TokenManager called by one client at a time              *)
(*   SpecRoutes - the handlers that authenticate a request by its token    *)
(*   SpecPerm   - hasPermission as a pure function                         *)
(*   SpecCodec  - the base64url codec on code units                        *)
(*   SpecRate   - rateLimitMiddleware with interleaved requests            *)
(*   SpecAdmin  - the user-administration routes with interleaved requests *)
(* Each specification keeps the variables of the others at their initial   *)
(* values.                                                                 *)
(***************************************************************************)
EXTENDS Integers, Sequences, FiniteSets, TLC

VARIABLES
    now,        \* Date.now(), milliseconds
    ticks,      \* number of clock advances so far (bounds the run)
    nextJti,    \* number of crypto.randomUUID() values drawn for jti so far
    minted,     \* SpecJwt: the token returned by the last signing operation
    vcall,      \* SpecJwt: the JWT.verify call just made (token, time, outcome)
    kcall,      \* SpecJwt: the verifyAccessToken / verifyRefreshToken call just made
    store,      \* SpecReg: TokenManager.refreshTokenStore, jti -> record
    pc,         \* SpecReg: each request slot's position in its handler
    call,       \* SpecReg: each request slot's operation and locals while in flight
    ncalls,     \* SpecReg: number of requests started so far (bounds the run)
    done,       \* SpecReg: the request that has just returned or thrown, with its outcome
    known,      \* SpecReg: refresh tokens handed to clients by generateTokenPair
    deleted,    \* SpecReg: token ids whose record was removed at some time
    revoked,    \* SpecReg: tokens for which a revokeRefreshToken call has returned
    cache,      \* SpecOAuth: env.CACHE, key oauth_state_<state> -> value and expiration (ms)
    nextState,  \* SpecOAuth: number of crypto.randomUUID() values drawn for state
    issuedAt,   \* SpecOAuth: per issued state, the time it was stored at
    cbpc,       \* SpecOAuth: each callback request's position in its handler
    cb,         \* SpecOAuth: each callback request's inputs and locals while in flight
    ncb,        \* SpecOAuth: number of callback requests started so far (bounds the run)
    cbdone,     \* SpecOAuth: the callback request that has just responded, with its outcome
    consumed,   \* SpecOAuth: states whose entry a callback has deleted
    passed,     \* SpecOAuth: per state, the number of callbacks that passed the state check
    shadow,     \* SpecMgr: the registry as it would be had cleanupExpiredTokens never run
    access,     \* SpecMgr: access tokens handed to clients by generateTokenPair
    mcall,      \* SpecMgr: the TokenManager call just made, with its outcome
    users,      \* SpecRoutes: the users table, id -> row
    rpc,        \* SpecRoutes: the position of the request in authMiddleware
    rq,         \* SpecRoutes: the request authMiddleware is handling
    rcall,      \* SpecRoutes: the request just answered, with its outcome
    pcall,      \* SpecPerm: the hasPermission call just made, with its result
    ccall,      \* SpecCodec: the encode / decode round trip just made
    rlCache,    \* SpecRate: env.CACHE, rate-limit window -> stored count
    rlpc,       \* SpecRate: each request's position in rateLimitMiddleware
    rlreq,      \* SpecRate: each request's window and the count it read
    admitted,   \* SpecRate: per window, the number of requests let through
    rlcall,     \* SpecRate: the request just answered, with its outcome
    nrl,        \* SpecRate: number of requests started so far (bounds the run)
    apc,        \* SpecAdmin: each request's position
    areq,       \* SpecAdmin: each request's context and inputs while in flight
    adone,      \* SpecAdmin: the request just answered, with its outcome
    nadmin      \* SpecAdmin: number of requests started so far (bounds the run)

vars == <<now, ticks, nextJti, minted, vcall, kcall, store, pc, call, ncalls, done, known, deleted,
          revoked, cache, nextState, issuedAt, cbpc, cb, ncb, cbdone, consumed, passed,
          shadow, access, mcall, users, rpc, rq, rcall, pcall, ccall,
          rlCache, rlpc, rlreq, admitted, rlcall, nrl, apc, areq, adone, nadmin>>

jwtVars   == <<minted, vcall, kcall>>
regVars   == <<store, pc, call, ncalls, done, known, deleted, revoked>>
oauthVars == <<cache, nextState, issuedAt, cbpc, cb, ncb, cbdone, consumed, passed>>
mgrVars   == <<shadow, access, mcall>>
routeVars == <<users, rpc, rq, rcall>>
permVars  == <<pcall>>
codecVars == <<ccall>>
rateVars  == <<rlCache, rlpc, rlreq, admitted, rlcall, nrl>>
adminVars == <<apc, areq, adone, nadmin>>
extVars   == <<permVars, codecVars, rateVars, adminVars>>
coreVars  == <<now, ticks, nextJti, jwtVars, regVars, oauthVars, mgrVars, routeVars>>

(***************************************************************************)
(* Bounds of the model.                                                    *)
(***************************************************************************)
MaxTicks == 2

(***************************************************************************)
(* Program constants.                                                      *)
(***************************************************************************)
AccessTokenExpiresIn  == 15 * 60
RefreshTokenExpiresIn == 7 * 24 * 60 * 60
DefaultSignExpiresIn  == 7 * 24 * 60 * 60
MsPerSecond == 1000

\* The clock stops where exp * 1000 of a token signed then still fits TLC's
\* 32-bit integers (the program's numbers are doubles and do not overflow).
MaxNow == 2 * RefreshTokenExpiresIn * MsPerSecond

Secret      == "JWT_SECRET"
OtherSecret == "attacker-secret"

Users == {"u1", "u2"}
RoleOfUser(u) == IF u = "u1" THEN "user" ELSE "admin"
UserClaims(u) == [userId |-> u, email |-> u, role |-> RoleOfUser(u)]

(***************************************************************************)
(* Values.  A JSON text is <<"json", v>> when it is the serialisation of   *)
(* the object v and <<"text", s>> when it is not JSON at all; a base64url  *)
(* string is <<"b64", s>> for the encoding of the string s.                *)
(***************************************************************************)
Ext(f, g) == [k \in (DOMAIN f) \cup (DOMAIN g) |-> IF k \in DOMAIN g THEN g[k] ELSE f[k]]

JSONStringify(obj) == <<"json", obj>>
JSONIsValid(str) == str[1] = "json"
JSONParse(str) == str[2]

base64UrlEncode(str) == <<"b64", str>>
base64UrlDecode(seg) == seg[2]

\* HMAC-SHA256 of `${encodedHeader}.${encodedPayload}` under a key, as a
\* symbolic (collision-free) message authentication code.
sign256(secret, encodedHeader, encodedPayload) ==
    <<"hmac", secret, encodedHeader, encodedPayload>>

Header == [alg |-> "HS256", typ |-> "JWT"]
NowSeconds(ms) == ms \div MsPerSecond

SignAtExpAbsolute(payload, expiresIn, ms) ==
    LET fullPayload == Ext(payload, [iat |-> NowSeconds(ms), exp |-> expiresIn])
        encodedHeader == base64UrlEncode(JSONStringify(Header))
        encodedPayload == base64UrlEncode(JSONStringify(fullPayload))
    IN  <<encodedHeader, encodedPayload, sign256(Secret, encodedHeader, encodedPayload)>>

\* JWT.sign: the token as the list of its '.'-separated segments.
SignAt(payload, expiresIn, ms) ==
    LET fullPayload == Ext(payload, [iat |-> NowSeconds(ms), exp |-> NowSeconds(ms) + expiresIn])
        encodedHeader == base64UrlEncode(JSONStringify(Header))
        encodedPayload == base64UrlEncode(JSONStringify(fullPayload))
    IN  <<encodedHeader, encodedPayload, sign256(Secret, encodedHeader, encodedPayload)>>

signAccessToken(payload, expiresIn, ms) ==
    SignAt(Ext(payload, [type |-> "access"]), expiresIn, ms)

signRefreshToken(payload, expiresIn, jti, ms) ==
    SignAt(Ext(payload, [type |-> "refresh", jti |-> jti]), expiresIn, ms)

generateUserToken(user, ms) ==
    SignAt([userId |-> user.userId, email |-> user.email, role |-> user.role],
           DefaultSignExpiresIn, ms)

(***************************************************************************)
(* Outcomes.  A returned value is [ok |-> TRUE, ...]; a thrown ApiError is *)
(* [ok |-> FALSE, name |-> "ApiError", message, status]; any other thrown  *)
(* error carries its name and no status.                                   *)
(***************************************************************************)
Return(v) == [ok |-> TRUE, value |-> v]
ApiError(message, status) ==
    [ok |-> FALSE, name |-> "ApiError", message |-> message, status |-> status]
SyntaxError == [ok |-> FALSE, name |-> "SyntaxError", message |-> "JSON.parse"]

PayloadExpired(payload, ms) ==
    "exp" \in DOMAIN payload /\ payload.exp < NowSeconds(ms)

VerifyNoSignatureCheck(token, ms) ==
    IF Len(token) # 3 THEN ApiError("Invalid token format", 401)
    ELSE LET str == base64UrlDecode(token[2])
         IN  IF ~JSONIsValid(str) THEN SyntaxError
             ELSE IF PayloadExpired(JSONParse(str), ms)
                  THEN ApiError("Token has expired", 401)
                  ELSE Return(JSONParse(str))

VerifyExpiryInclusive(token, ms) ==
    IF Len(token) # 3 THEN ApiError("Invalid token format", 401)
    ELSE IF token[3] # sign256(Secret, token[1], token[2])
    THEN ApiError("Invalid token signature", 401)
    ELSE LET str == base64UrlDecode(token[2])
         IN  IF ~JSONIsValid(str) THEN SyntaxError
             ELSE IF "exp" \in DOMAIN JSONParse(str) /\ JSONParse(str).exp <= NowSeconds(ms)
                  THEN ApiError("Token has expired", 401)
                  ELSE Return(JSONParse(str))

\* JWT.verify at clock reading ms.
Verify(token, ms) ==
    IF Len(token) # 3 THEN ApiError("Invalid token format", 401)
    ELSE IF token[3] # sign256(Secret, token[1], token[2])
    THEN ApiError("Invalid token signature", 401)
    ELSE LET str == base64UrlDecode(token[2])
         IN  IF ~JSONIsValid(str) THEN SyntaxError
             ELSE IF PayloadExpired(JSONParse(str), ms)
                  THEN ApiError("Token has expired", 401)
                  ELSE Return(JSONParse(str))

VerifyAccessAnyKind(token, ms) == Verify(token, ms)

verifyAccessToken(token, ms) ==
    LET r == Verify(token, ms)
    IN  IF ~r.ok THEN r
        ELSE IF ~("type" \in DOMAIN r.value /\ r.value.type = "access")
             THEN ApiError("Invalid access token", 401)
             ELSE r

verifyRefreshToken(token, ms) ==
    LET r == Verify(token, ms)
    IN  IF ~r.ok THEN r
        ELSE IF ~("type" \in DOMAIN r.value /\ r.value.type = "refresh")
             THEN ApiError("Invalid refresh token", 401)
             ELSE r

(***************************************************************************)
(* The clock.  Date.now() advances by one of a few steps: one millisecond, *)
(* one second, and each of the lifetimes the program uses.                 *)
(***************************************************************************)
OAuthStateTtl == 600

Tick(steps) ==
    /\ ticks < MaxTicks
    /\ \E d \in steps :
          /\ now + d <= MaxNow
          /\ now' = now + d
    /\ ticks' = ticks + 1

(***************************************************************************)
(* SpecJwt: a signing operation mints the token under examination, and     *)
(* JWT.verify is called on it or on a string derived from it: a segment    *)
(* replaced, dropped or added, the signature made under another key, or a  *)
(* payload that is not JSON signed under the engine's own key.             *)
(***************************************************************************)
ExpiresInChoices == {-1, 0, AccessTokenExpiresIn, RefreshTokenExpiresIn}
JtiChoices == {"jti-a", "jti-b"}
JwtTickSteps == {1, MsPerSecond, AccessTokenExpiresIn * MsPerSecond}

PayloadOf(token) == JSONParse(base64UrlDecode(token[2]))
EncodePayload(payload) == base64UrlEncode(JSONStringify(payload))

NoneHeader == base64UrlEncode(JSONStringify([alg |-> "none", typ |-> "JWT"]))
NotJson    == base64UrlEncode(<<"text", "not json">>)

Derived(t) ==
    LET admin == EncodePayload(Ext(PayloadOf(t), [role |-> "admin"]))
        later == EncodePayload(Ext(PayloadOf(t), [exp |-> PayloadOf(t).exp + RefreshTokenExpiresIn]))
    IN  { t,
          <<t[1], admin, t[3]>>,
          <<t[1], later, t[3]>>,
          <<NoneHeader, t[2], t[3]>>,
          <<t[1], NotJson, t[3]>>,
          <<t[1], admin, sign256(OtherSecret, t[1], admin)>>,
          <<t[1], NotJson, sign256(Secret, t[1], NotJson)>>,
          <<t[1], t[2]>>,
          <<t[1], t[2], t[3], t[3]>> }

JwtSignAccess ==
    /\ \E u \in Users, expiresIn \in ExpiresInChoices :
          minted' = {signAccessToken(UserClaims(u), expiresIn, now)}
    /\ vcall' = {}
    /\ kcall' = {}
    /\ UNCHANGED <<now, ticks, nextJti, regVars, oauthVars, mgrVars, routeVars, extVars>>

JwtSignRefresh ==
    /\ \E u \in Users, expiresIn \in ExpiresInChoices, jti \in JtiChoices :
          minted' = {signRefreshToken(UserClaims(u), expiresIn, jti, now)}
    /\ vcall' = {}
    /\ kcall' = {}
    /\ UNCHANGED <<now, ticks, nextJti, regVars, oauthVars, mgrVars, routeVars, extVars>>

JwtGenerateUserToken ==
    /\ \E u \in Users :
          minted' = {generateUserToken(UserClaims(u), now)}
    /\ vcall' = {}
    /\ kcall' = {}
    /\ UNCHANGED <<now, ticks, nextJti, regVars, oauthVars, mgrVars, routeVars, extVars>>

JwtVerify ==
    /\ \E o \in minted : \E t \in Derived(o) :
          vcall' = {[tok |-> t, at |-> now, res |-> Verify(t, now)]}
    /\ kcall' = {}
    /\ UNCHANGED <<now, ticks, nextJti, minted, regVars, oauthVars, mgrVars, routeVars, extVars>>

\* JWT.verifyAccessToken on the minted token or a string derived from it.
JwtVerifyAccess ==
    /\ \E o \in minted : \E t \in Derived(o) :
          kcall' = {[fn |-> "verifyAccessToken", tok |-> t, at |-> now,
                     res |-> verifyAccessToken(t, now)]}
    /\ vcall' = {}
    /\ UNCHANGED <<now, ticks, nextJti, minted, regVars, oauthVars, mgrVars, routeVars, extVars>>

\* JWT.verifyRefreshToken on the minted token or a string derived from it.
JwtVerifyRefresh ==
    /\ \E o \in minted : \E t \in Derived(o) :
          kcall' = {[fn |-> "verifyRefreshToken", tok |-> t, at |-> now,
                     res |-> verifyRefreshToken(t, now)]}
    /\ vcall' = {}
    /\ UNCHANGED <<now, ticks, nextJti, minted, regVars, oauthVars, mgrVars, routeVars, extVars>>

JwtTick ==
    /\ Tick(JwtTickSteps)
    /\ vcall' = {}
    /\ kcall' = {}
    /\ UNCHANGED <<nextJti, minted, regVars, oauthVars, mgrVars, routeVars, extVars>>

(***************************************************************************)
(* SpecReg: the TokenManager singleton.  Request slots run                 *)
(* generateTokenPair, refreshAccessToken and revokeRefreshToken, each      *)
(* split where the handler awaits the HMAC (crypto.subtle), so that the    *)
(* code between two awaits is one atomic step; revokeAllUserTokens and     *)
(* cleanupExpiredTokens are synchronous and take one step.  A restart      *)
(* replaces the registry by an empty one and drops the requests in flight. *)
(***************************************************************************)
MaxIssued == 2
MaxCalls == 3

Procs == {"r1", "r2"}
RegTickSteps == {1, RefreshTokenExpiresIn * MsPerSecond}

ReusedJti(n) == 1

\* crypto.randomUUID(): a value never drawn before.
FreshJti(n) == n + 1

HasJti(payload) == "jti" \in DOMAIN payload

Remove(st, keys) == [j \in (DOMAIN st) \ keys |-> st[j]]
PutDropsOthers(st, j, rec) == [k \in {j} |-> rec]

Put(st, j, rec) == [k \in (DOMAIN st) \cup {j} |-> IF k = j THEN rec ELSE st[k]]

RefreshLookupNoRegistry(st, payload, ms) == [outcome |-> "ok", st |-> st]

RefreshLookupRotates(st, payload, ms) ==
    IF ~HasJti(payload) \/ payload.jti \notin DOMAIN st
    THEN [outcome |-> "invalid", st |-> st]
    ELSE IF ms > st[payload.jti].expiresAt
         THEN [outcome |-> "expired", st |-> Remove(st, {payload.jti})]
         ELSE [outcome |-> "ok", st |-> Remove(st, {payload.jti})]

\* refreshAccessToken, lines 251-261: the registry's part of the decision.
RefreshLookup(st, payload, ms) ==
    IF ~HasJti(payload) \/ payload.jti \notin DOMAIN st
    THEN [outcome |-> "invalid", st |-> st]
    ELSE IF ms > st[payload.jti].expiresAt
         THEN [outcome |-> "expired", st |-> Remove(st, {payload.jti})]
         ELSE [outcome |-> "ok", st |-> st]

\* refreshAccessToken, lines 248-262, run without suspension at clock reading
\* ms against registry st: whether it goes on to mint an access token.
RefreshSucceeds(t, st, ms) ==
    /\ verifyRefreshToken(t, ms).ok
    /\ RefreshLookup(st, verifyRefreshToken(t, ms).value, ms).outcome = "ok"

RevokeDeleteNothing(st, payload) == st

\* revokeRefreshToken, lines 286-288.
RevokeDelete(st, payload) ==
    IF HasJti(payload) THEN Remove(st, {payload.jti}) ELSE st

RevokeAllClearsStore(st, userId) == Remove(st, DOMAIN st)

revokeAllUserTokens(st, userId) ==
    Remove(st, {j \in DOMAIN st : st[j].userId = userId})

CleanupInverted(st, ms) ==
    Remove(st, {j \in DOMAIN st : ms < st[j].expiresAt})

CleanupInclusive(st, ms) ==
    Remove(st, {j \in DOMAIN st : ms >= st[j].expiresAt})

cleanupExpiredTokens(st, ms) ==
    Remove(st, {j \in DOMAIN st : ms > st[j].expiresAt})

\* A refresh token never registered here: signed under the engine's secret by
\* JWT.signRefreshToken directly, outside the TokenManager.
ForeignRefresh ==
    signRefreshToken(UserClaims("u1"), RefreshTokenExpiresIn, 0, 0)

Presentable == known \cup {ForeignRefresh}

InvalidRefreshToken == ApiError("Invalid refresh token", 401)

Idle == [op |-> "none"]

HasRecord(t) == HasJti(PayloadOf(t)) /\ PayloadOf(t).jti \in DOMAIN store

\* Every change of the registry goes through here: the token ids that lose
\* their record are remembered.
SetStore(st) ==
    /\ store' = st
    /\ deleted' = deleted \cup ((DOMAIN store) \ (DOMAIN st))

StartGenerate(p) ==
    /\ pc[p] = "idle"
    /\ ncalls < MaxCalls
    /\ ncalls' = ncalls + 1
    /\ nextJti < MaxIssued
    /\ \E u \in Users :
          call' = [call EXCEPT ![p] =
                      [op |-> "generate", user |-> UserClaims(u),
                       accessToken |-> signAccessToken(UserClaims(u), AccessTokenExpiresIn, now)]]
    /\ pc' = [pc EXCEPT ![p] = "g_access"]
    /\ done' = {}
    /\ UNCHANGED <<now, ticks, nextJti, store, known, deleted, revoked, jwtVars, oauthVars, mgrVars, routeVars, extVars>>

GenSignRefresh(p) ==
    /\ pc[p] = "g_access"
    /\ nextJti' = FreshJti(nextJti)
    /\ call' = [call EXCEPT ![p] =
                   Ext(call[p], [refreshToken |->
                       signRefreshToken(call[p].user, RefreshTokenExpiresIn, nextJti', now)])]
    /\ pc' = [pc EXCEPT ![p] = "g_verify"]
    /\ done' = {}
    /\ UNCHANGED <<ncalls, now, ticks, store, known, deleted, revoked, jwtVars, oauthVars, mgrVars, routeVars, extVars>>

GenStore(p) ==
    /\ pc[p] = "g_verify"
    /\ LET r == verifyRefreshToken(call[p].refreshToken, now)
       IN  IF ~r.ok
           THEN /\ done' = {Ext(call[p], [res |-> r])}
                /\ UNCHANGED <<store, known, deleted>>
           ELSE /\ IF HasJti(r.value)
                   THEN SetStore(Put(store, r.value.jti,
                                     [userId |-> call[p].user.userId,
                                      expiresAt |-> r.value.exp * MsPerSecond]))
                   ELSE UNCHANGED <<store, deleted>>
                /\ known' = known \cup {call[p].refreshToken}
                /\ done' = {Ext(call[p], [res |->
                               Return([accessToken |-> call[p].accessToken,
                                       refreshToken |-> call[p].refreshToken,
                                       expiresIn |-> AccessTokenExpiresIn])])}
    /\ call' = [call EXCEPT ![p] = Idle]
    /\ pc' = [pc EXCEPT ![p] = "idle"]
    /\ UNCHANGED <<ncalls, now, ticks, nextJti, revoked, jwtVars, oauthVars, mgrVars, routeVars, extVars>>

StartRefresh(p) ==
    /\ pc[p] = "idle"
    /\ ncalls < MaxCalls
    /\ ncalls' = ncalls + 1
    /\ \E t \in Presentable :
          call' = [call EXCEPT ![p] =
                      [op |-> "refresh", tok |-> t,
                       recordAtStart |-> HasRecord(t),
                       revokedAtStart |-> t \in revoked]]
    /\ pc' = [pc EXCEPT ![p] = "r_verify"]
    /\ done' = {}
    /\ UNCHANGED <<now, ticks, nextJti, store, known, deleted, revoked, jwtVars, oauthVars, mgrVars, routeVars, extVars>>

RefreshCheck(p) ==
    /\ pc[p] = "r_verify"
    /\ LET r == verifyRefreshToken(call[p].tok, now)
           look == RefreshLookup(store, r.value, now)
       IN  IF ~r.ok
           THEN /\ done' = {Ext(call[p], [res |-> InvalidRefreshToken])}
                /\ call' = [call EXCEPT ![p] = Idle]
                /\ pc' = [pc EXCEPT ![p] = "idle"]
                /\ UNCHANGED <<store, deleted>>
           ELSE /\ SetStore(look.st)
                /\ IF look.outcome = "ok"
                   THEN /\ call' = [call EXCEPT ![p] = Ext(call[p],
                               [recordAtCheck |-> HasRecord(call[p].tok),
                                accessToken |->
                                   signAccessToken([userId |-> r.value.userId,
                                                    email |-> r.value.email,
                                                    role |-> r.value.role],
                                                   AccessTokenExpiresIn, now)])]
                        /\ pc' = [pc EXCEPT ![p] = "r_sign"]
                        /\ UNCHANGED done
                   ELSE /\ done' = {Ext(call[p],
                               [recordAtCheck |-> HasRecord(call[p].tok),
                                res |-> InvalidRefreshToken])}
                        /\ call' = [call EXCEPT ![p] = Idle]
                        /\ pc' = [pc EXCEPT ![p] = "idle"]
    /\ UNCHANGED <<ncalls, now, ticks, nextJti, known, revoked, jwtVars, oauthVars, mgrVars, routeVars, extVars>>

RefreshReturn(p) ==
    /\ pc[p] = "r_sign"
    /\ done' = {Ext(call[p],
                   [revokedAtReturn |-> call[p].tok \in revoked,
                    res |-> Return([accessToken |-> call[p].accessToken,
                                    expiresIn |-> AccessTokenExpiresIn])])}
    /\ call' = [call EXCEPT ![p] = Idle]
    /\ pc' = [pc EXCEPT ![p] = "idle"]
    /\ UNCHANGED <<ncalls, now, ticks, nextJti, store, known, deleted, revoked, jwtVars, oauthVars, mgrVars, routeVars, extVars>>

StartRevoke(p) ==
    /\ pc[p] = "idle"
    /\ ncalls < MaxCalls
    /\ ncalls' = ncalls + 1
    /\ \E t \in Presentable :
          call' = [call EXCEPT ![p] = [op |-> "revoke", tok |-> t]]
    /\ pc' = [pc EXCEPT ![p] = "v_verify"]
    /\ done' = {}
    /\ UNCHANGED <<now, ticks, nextJti, store, known, deleted, revoked, jwtVars, oauthVars, mgrVars, routeVars, extVars>>

RevokeApply(p) ==
    /\ pc[p] = "v_verify"
    /\ LET r == verifyRefreshToken(call[p].tok, now)
       IN  IF r.ok THEN SetStore(RevokeDelete(store, r.value))
                   ELSE UNCHANGED <<store, deleted>>
    /\ done' = {Ext(call[p], [res |-> Return("void")])}
    /\ call' = [call EXCEPT ![p] = Idle]
    /\ revoked' = revoked \cup {call[p].tok}
    /\ pc' = [pc EXCEPT ![p] = "idle"]
    /\ UNCHANGED <<ncalls, now, ticks, nextJti, known, jwtVars, oauthVars, mgrVars, routeVars, extVars>>

RevokeAllOf(u) ==
    /\ SetStore(revokeAllUserTokens(store, u))
    /\ done' = {}
    /\ UNCHANGED <<ncalls, now, ticks, nextJti, pc, call, known, revoked, jwtVars, oauthVars, mgrVars, routeVars, extVars>>

RevokeAll == \E u \in Users : RevokeAllOf(u)

Cleanup ==
    /\ SetStore(cleanupExpiredTokens(store, now))
    /\ done' = {}
    /\ UNCHANGED <<ncalls, now, ticks, nextJti, pc, call, known, revoked, jwtVars, oauthVars, mgrVars, routeVars, extVars>>

\* The process restarts: getTokenManager builds a new, empty registry.
Restart ==
    /\ store # <<>>
    /\ SetStore(<<>>)
    /\ pc' = [p \in Procs |-> "idle"]
    /\ call' = [p \in Procs |-> Idle]
    /\ done' = {}
    /\ UNCHANGED <<ncalls, now, ticks, nextJti, known, revoked, jwtVars, oauthVars, mgrVars, routeVars, extVars>>

RegTick ==
    /\ Tick(RegTickSteps)
    /\ done' = {}
    /\ UNCHANGED <<nextJti, store, pc, call, ncalls, known, deleted, revoked, jwtVars, oauthVars, mgrVars, routeVars, extVars>>

JwtInitVars ==
    /\ minted = {}
    /\ vcall = {}
    /\ kcall = {}

RegInitVars ==
    /\ store = <<>>
    /\ pc = <<>>
    /\ call = <<>>
    /\ ncalls = 0
    /\ done = {}
    /\ known = {}
    /\ deleted = {}
    /\ revoked = {}

(***************************************************************************)
(* SpecOAuth: the GitHub OAuth handshake.  signInGitHub and                *)
(* getGitHubAuthUrl store a fresh state in env.CACHE; callbackGitHub       *)
(* (GET /api/auth/callback/github) and handleGitHubCallback                *)
(* (POST /api/auth/github/callback) run in request slots, split at their   *)
(* awaits of the KV store.  An entry of the KV store is readable until its *)
(* expiration.                                                             *)
(***************************************************************************)
MaxStates == 1
MaxCallbacks == 2

CbProcs == {"c1", "c2"}
OAuthTickSteps == {MsPerSecond, OAuthStateTtl * MsPerSecond}

\* A state value this system never issued.
NeverIssued == 0

\* crypto.randomUUID() for the state.
FreshState(n) == n + 1

CachePut(c, key, value, expirationTtl, ms) ==
    [k \in (DOMAIN c) \cup {key} |->
        IF k = key THEN [value |-> value, expiration |-> ms + expirationTtl * MsPerSecond]
        ELSE c[k]]

\* env.CACHE.get: the set holding the stored value, empty for null.
CacheGet(c, key, ms) ==
    IF key \in DOMAIN c /\ ms < c[key].expiration THEN {c[key].value} ELSE {}

CacheDeleteNothing(c, key) == c

CacheDelete(c, key) == [k \in (DOMAIN c) \ {key} |-> c[k]]

IssueState ==
    /\ nextState < MaxStates
    /\ nextState' = FreshState(nextState)
    /\ cache' = CachePut(cache, nextState', "valid", OAuthStateTtl, now)
    /\ issuedAt' = [k \in (DOMAIN issuedAt) \cup {nextState'} |->
                       IF k = nextState' THEN now ELSE issuedAt[k]]
    /\ cbdone' = {}
    /\ UNCHANGED <<now, ticks, nextJti, cbpc, cb, ncb, consumed, passed, jwtVars, regVars, mgrVars, routeVars, extVars>>

\* GET /api/auth/signin/github
SignInGitHub == IssueState

\* GET /api/auth/github/url
GetGitHubAuthUrl == IssueState

\* The request parameters: code and state are sets, empty when the parameter
\* is missing; a code is one GitHub accepts or one it refuses.
Codes == {{}, {"good"}, {"refused"}}

CallbackRequests ==
    [code : Codes,
     state : {{}} \cup {{x} : x \in (DOMAIN issuedAt) \cup {NeverIssued}},
     error : BOOLEAN]

\* handleGitHubCallback reads the code only.
HandleCallbackRequests ==
    [code : Codes, state : {{}, {NeverIssued}}, error : {FALSE}]

\* authenticateUser: GitHub exchanges the code for the user, or refuses.
CodeAccepted(code) == code = {"good"}

Redirect(location) == [status |-> 302, location |-> location, token |-> {}]
LoggedIn(status) == [status |-> status, location |-> "/", token |-> {"session-token"}]

CbRespond(p, c, response) ==
    /\ cbdone' = {Ext(c, [res |-> response])}
    /\ cb' = [cb EXCEPT ![p] = Idle]
    /\ cbpc' = [cbpc EXCEPT ![p] = "idle"]

\* callbackGitHub, lines 427-453: up to the await of env.CACHE.get.
CallbackGitHubStart(p) ==
    /\ cbpc[p] = "idle"
    /\ ncb < MaxCallbacks
    /\ ncb' = ncb + 1
    /\ \E req \in CallbackRequests :
          LET c == Ext(req, [handler |-> "callbackGitHub",
                             consumedAtStart |-> req.state \cap consumed # {}])
          IN  IF req.error
              THEN CbRespond(p, c, Redirect("/auth/error?error=<error>"))
              ELSE IF req.code = {}
              THEN CbRespond(p, c, Redirect("/auth/error?error=missing_code"))
              ELSE /\ cb' = [cb EXCEPT ![p] = c]
                   /\ cbpc' = [cbpc EXCEPT ![p] = IF req.state # {} THEN "cb_get" ELSE "cb_auth"]
                   /\ cbdone' = {}
    /\ UNCHANGED <<now, ticks, nextJti, cache, nextState, issuedAt, consumed, passed,
                   jwtVars, regVars, mgrVars, routeVars, extVars>>

\* callbackGitHub, lines 453-463: the value read, up to the await of env.CACHE.delete.
CallbackGitHubGet(p) ==
    /\ cbpc[p] = "cb_get"
    /\ LET state == CHOOSE x \in cb[p].state : TRUE
           storedState == CacheGet(cache, state, now)
           c == Ext(cb[p], [storedState |-> storedState, getAt |-> now,
                            consumedAtGet |-> state \in consumed])
       IN  IF storedState = {}
           THEN /\ CbRespond(p, c, Redirect("/auth/error?error=invalid_state"))
                /\ UNCHANGED passed
           ELSE /\ cb' = [cb EXCEPT ![p] = c]
                /\ cbpc' = [cbpc EXCEPT ![p] = "cb_delete"]
                /\ passed' = [passed EXCEPT ![state] = @ + 1]
                /\ cbdone' = {}
    /\ UNCHANGED <<now, ticks, nextJti, cache, nextState, issuedAt, ncb, consumed,
                   jwtVars, regVars, mgrVars, routeVars, extVars>>

\* callbackGitHub, line 463: the entry is deleted.
CallbackGitHubDelete(p) ==
    /\ cbpc[p] = "cb_delete"
    /\ LET state == CHOOSE x \in cb[p].state : TRUE
       IN  /\ cache' = CacheDelete(cache, state)
           /\ consumed' = consumed \cup {state}
    /\ cbpc' = [cbpc EXCEPT ![p] = "cb_auth"]
    /\ cbdone' = {}
    /\ UNCHANGED <<now, ticks, nextJti, nextState, issuedAt, cb, ncb, passed,
                   jwtVars, regVars, mgrVars, routeVars, extVars>>

\* callbackGitHub, lines 466-514: the code is exchanged, the user stored and
\* the session token issued; a refused code is caught.
CallbackGitHubAuth(p) ==
    /\ cbpc[p] = "cb_auth"
    /\ cb[p].handler = "callbackGitHub"
    /\ IF CodeAccepted(cb[p].code)
       THEN CbRespond(p, cb[p], LoggedIn(302))
       ELSE CbRespond(p, cb[p], Redirect("/auth/error?error=callback_error"))
    /\ UNCHANGED <<now, ticks, nextJti, cache, nextState, issuedAt, ncb, consumed, passed,
                   jwtVars, regVars, mgrVars, routeVars, extVars>>

\* handleGitHubCallback, lines 16-33: the state parameter is not read.
HandleGitHubCallbackStart(p) ==
    /\ cbpc[p] = "idle"
    /\ ncb < MaxCallbacks
    /\ ncb' = ncb + 1
    /\ \E req \in HandleCallbackRequests :
          LET c == Ext(req, [handler |-> "handleGitHubCallback",
                             consumedAtStart |-> req.state \cap consumed # {}])
          IN  IF req.code = {}
              THEN CbRespond(p, c, [status |-> 400, location |-> "", token |-> {}])
              ELSE /\ cb' = [cb EXCEPT ![p] = c]
                   /\ cbpc' = [cbpc EXCEPT ![p] = "cb_auth"]
                   /\ cbdone' = {}
    /\ UNCHANGED <<now, ticks, nextJti, cache, nextState, issuedAt, consumed, passed,
                   jwtVars, regVars, mgrVars, routeVars, extVars>>

\* handleGitHubCallback, lines 33-75.
HandleGitHubCallbackAuth(p) ==
    /\ cbpc[p] = "cb_auth"
    /\ cb[p].handler = "handleGitHubCallback"
    /\ IF CodeAccepted(cb[p].code)
       THEN CbRespond(p, cb[p], LoggedIn(200))
       ELSE CbRespond(p, cb[p], [status |-> 500, location |-> "", token |-> {}])
    /\ UNCHANGED <<now, ticks, nextJti, cache, nextState, issuedAt, ncb, consumed, passed,
                   jwtVars, regVars, mgrVars, routeVars, extVars>>

OAuthTick ==
    /\ Tick(OAuthTickSteps)
    /\ cbdone' = {}
    /\ UNCHANGED <<nextJti, cache, nextState, issuedAt, cbpc, cb, ncb, consumed, passed,
                   jwtVars, regVars, mgrVars, routeVars, extVars>>

(***************************************************************************)
(* SpecMgr: the TokenManager called by one client at a time.  Each public  *)
(* method runs to its end before the next call begins, so a call is one    *)
(* step; the calls take refresh tokens and access tokens handed out        *)
(* earlier, and strings that are no token of this engine.                  *)
(***************************************************************************)
MgrTickSteps == {1, RefreshTokenExpiresIn * MsPerSecond}

\* A string without the three segments of a token.
Malformed == <<"not-a-token">>

\* A refresh token signed under another key.
BadlySigned ==
    LET h == base64UrlEncode(JSONStringify(Header))
        b == EncodePayload(Ext(UserClaims("u1"),
                 [type |-> "refresh", jti |-> 1, iat |-> 0, exp |-> RefreshTokenExpiresIn]))
    IN  <<h, b, sign256(OtherSecret, h, b)>>

MgrInputs == known \cup access \cup {ForeignRefresh, Malformed, BadlySigned}

\* refreshAccessToken, lines 275-277: whatever was thrown inside the try block
\* is replaced.
RefreshCatch(error) == ApiError("Invalid refresh token", 401)

\* refreshAccessToken, lines 247-278, run to its end at clock reading ms on
\* registry st: the outcome and the registry left behind.
refreshAccessToken(st, token, ms) ==
    LET r == verifyRefreshToken(token, ms)
    IN  IF ~r.ok THEN [res |-> RefreshCatch(r), st |-> st]
        ELSE LET look == RefreshLookup(st, r.value, ms)
             IN  IF look.outcome = "invalid"
                 THEN [res |-> RefreshCatch(ApiError("Invalid refresh token", 401)),
                       st |-> look.st]
                 ELSE IF look.outcome = "expired"
                 THEN [res |-> RefreshCatch(ApiError("Refresh token expired", 401)),
                       st |-> look.st]
                 ELSE [res |-> Return([accessToken |->
                                          signAccessToken([userId |-> r.value.userId,
                                                           email |-> r.value.email,
                                                           role |-> r.value.role],
                                                          AccessTokenExpiresIn, ms),
                                       expiresIn |-> AccessTokenExpiresIn]),
                       st |-> look.st]

RevokeRethrows(st, token, ms) ==
    LET r == verifyRefreshToken(token, ms)
    IN  IF r.ok THEN [res |-> Return("void"), st |-> RevokeDelete(st, r.value)]
        ELSE [res |-> r, st |-> st]

\* revokeRefreshToken, lines 283-292, run to its end.
revokeRefreshToken(st, token, ms) ==
    LET r == verifyRefreshToken(token, ms)
    IN  IF r.ok THEN [res |-> Return("void"), st |-> RevokeDelete(st, r.value)]
        ELSE [res |-> Return("void"), st |-> st]

VerifyAccessNeedsRecord(token, ms) ==
    LET r == verifyAccessToken(token, ms)
    IN  IF r.ok /\ ~(\E j \in DOMAIN store : store[j].userId = r.value.userId)
        THEN ApiError("Invalid access token", 401)
        ELSE r

\* TokenManager.verifyAccessToken, lines 320-322.
TokenManager_verifyAccessToken(token, ms) == verifyAccessToken(token, ms)

StoredRecordInSeconds(userId, refreshPayload) ==
    [userId |-> userId, expiresAt |-> refreshPayload.exp]

\* The record generateTokenPair stores, lines 227-230.
StoredRecord(userId, refreshPayload) ==
    [userId |-> userId, expiresAt |-> refreshPayload.exp * MsPerSecond]

\* generateTokenPair, lines 213-238.
MgrGenerateTokenPair ==
    /\ nextJti < MaxIssued
    /\ nextJti' = FreshJti(nextJti)
    /\ \E u \in Users :
          LET accessToken == signAccessToken(UserClaims(u), AccessTokenExpiresIn, now)
              refreshToken == signRefreshToken(UserClaims(u), RefreshTokenExpiresIn,
                                               nextJti', now)
              r == verifyRefreshToken(refreshToken, now)
              rec == StoredRecord(u, r.value)
          IN  IF ~r.ok
              THEN /\ mcall' = {[op |-> "generate", user |-> u, at |-> now, res |-> r,
                                 storeBefore |-> store]}
                   /\ UNCHANGED <<store, deleted, shadow, known, access>>
              ELSE /\ IF HasJti(r.value)
                      THEN /\ SetStore(Put(store, r.value.jti, rec))
                           /\ shadow' = Put(shadow, r.value.jti, rec)
                      ELSE UNCHANGED <<store, deleted, shadow>>
                   /\ known' = known \cup {refreshToken}
                   /\ access' = access \cup {accessToken}
                   /\ mcall' = {[op |-> "generate", user |-> u, at |-> now,
                                 res |-> Return([accessToken |-> accessToken,
                                                 refreshToken |-> refreshToken,
                                                 expiresIn |-> AccessTokenExpiresIn]),
                                 storeBefore |-> store]}
    /\ UNCHANGED <<now, ticks, pc, call, ncalls, done, revoked, jwtVars, oauthVars, routeVars, extVars>>

MgrRefreshAccessToken ==
    /\ \E t \in MgrInputs :
          LET out == refreshAccessToken(store, t, now)
          IN  /\ SetStore(out.st)
              /\ shadow' = refreshAccessToken(shadow, t, now).st
              /\ mcall' = {[op |-> "refresh", tok |-> t, at |-> now, res |-> out.res,
                            storeBefore |-> store,
                            shadowRes |-> refreshAccessToken(shadow, t, now).res]}
    /\ UNCHANGED <<now, ticks, nextJti, pc, call, ncalls, done, known, revoked, access,
                   jwtVars, oauthVars, routeVars, extVars>>

MgrRevokeRefreshToken ==
    /\ \E t \in MgrInputs :
          LET out == revokeRefreshToken(store, t, now)
          IN  /\ SetStore(out.st)
              /\ shadow' = revokeRefreshToken(shadow, t, now).st
              /\ mcall' = {[op |-> "revoke", tok |-> t, at |-> now, res |-> out.res,
                            storeBefore |-> store,
                            again |-> revokeRefreshToken(out.st, t, now).st]}
    /\ UNCHANGED <<now, ticks, nextJti, pc, call, ncalls, done, known, revoked, access,
                   jwtVars, oauthVars, routeVars, extVars>>

MgrRevokeAllUserTokens ==
    /\ \E u \in Users :
          /\ SetStore(revokeAllUserTokens(store, u))
          /\ shadow' = revokeAllUserTokens(shadow, u)
          /\ mcall' = {[op |-> "revokeAll", user |-> u, at |-> now, res |-> Return("void"),
                        storeBefore |-> store]}
    /\ UNCHANGED <<now, ticks, nextJti, pc, call, ncalls, done, known, revoked, access,
                   jwtVars, oauthVars, routeVars, extVars>>

MgrCleanupExpiredTokens ==
    /\ SetStore(cleanupExpiredTokens(store, now))
    /\ mcall' = {[op |-> "cleanup", at |-> now, res |-> Return("void"),
                  storeBefore |-> store]}
    /\ UNCHANGED <<now, ticks, nextJti, pc, call, ncalls, done, known, revoked, access,
                   shadow, jwtVars, oauthVars, routeVars, extVars>>

MgrVerifyAccessToken ==
    /\ \E t \in MgrInputs :
          mcall' = {[op |-> "verifyAccess", tok |-> t, at |-> now,
                     res |-> TokenManager_verifyAccessToken(t, now),
                     storeBefore |-> store]}
    /\ UNCHANGED <<now, ticks, nextJti, store, deleted, pc, call, ncalls, done, known,
                   revoked, access, shadow, jwtVars, oauthVars, routeVars, extVars>>

MgrTick ==
    /\ Tick(MgrTickSteps)
    /\ mcall' = {}
    /\ UNCHANGED <<nextJti, regVars, access, shadow, jwtVars, oauthVars, routeVars, extVars>>

(***************************************************************************)
(* SpecRoutes: the request handlers that authenticate by token:            *)
(* authMiddleware with validateSessionFromCookie, POST /api/auth/verify    *)
(* and POST /api/auth/refresh, over the users table.  A handler reads the  *)
(* table once per token, and that read is its step; authMiddleware reads   *)
(* for the bearer token first and for the session cookie after.  Users are *)
(* created active by upsertUser, switched by toggleUserStatus and removed   *)
(* by deleteUser.                                                          *)
(***************************************************************************)
RouteTickSteps == {1, RefreshTokenExpiresIn * MsPerSecond}

\* The tokens a client may hold: of each kind for each user, signed by the
\* engine at clock reading 0, and two strings that are not.
RouteTokens ==
    UNION {{signAccessToken(UserClaims(u), AccessTokenExpiresIn, 0),
            signRefreshToken(UserClaims(u), RefreshTokenExpiresIn, 1, 0),
            generateUserToken(UserClaims(u), 0)} : u \in Users}
    \cup {Malformed, BadlySigned}

\* A header or cookie value: the set holding the token, empty when absent.
Presented == {{}} \cup {{t} : t \in RouteTokens}

UserRowExists(db, id) == id \in DOMAIN db

\* `user && user.is_active` on the row getUserById returns.
UserUsable(db, id) == id \in DOMAIN db /\ db[id].is_active

\* The response built from an error: the status of an ApiError, else the
\* status given.
createErrorResponse(error, status) ==
    [ok |-> FALSE,
     status |-> IF error.name = "ApiError" THEN error.status ELSE status,
     error |-> error.message, token |-> {}, user |-> {}]

\* `error instanceof ApiError ? error : fallback`
ErrorOr(error, fallback) ==
    IF error.name = "ApiError" THEN error ELSE [name |-> "string", message |-> fallback]

createSuccessResponse(user, token) ==
    [ok |-> TRUE, status |-> 200, error |-> "", token |-> token, user |-> {user}]

\* The user a verified token authenticates against the table: the set
\* holding the user id, empty for null.
UserOfToken(token, db, ms) ==
    LET r == Verify(token, ms)
    IN  IF r.ok /\ UserUsable(db, r.value.userId) THEN {r.value.userId} ELSE {}

\* validateSessionFromCookie, lines 557-590.
validateSessionFromCookie(cookie, db, ms) ==
    IF cookie = {} THEN {}
    ELSE UserOfToken(CHOOSE t \in cookie : TRUE, db, ms)

RouteRespond(c) ==
    /\ rcall' = {c}
    /\ rpc' = "idle"
    /\ rq' = Idle

\* An Authorization header value as the pair of its first seven characters
\* and the rest; request.headers.get gives the empty set (null) when the
\* header is absent.  The rest is a token or the empty string.
EmptyString == <<>>
BearerPrefix == "Bearer "
OtherPrefixes == {"bearer ", "Basic Z", "Bearer:"}

AuthorizationHeaders ==
    {{}}
    \cup {{[prefix |-> BearerPrefix, rest |-> t]} : t \in RouteTokens \cup {EmptyString}}
    \cup {{[prefix |-> p, rest |-> signAccessToken(UserClaims(u), AccessTokenExpiresIn, 0)]} :
              p \in OtherPrefixes, u \in Users}

ExtractAnyScheme(authorization) == {h.rest : h \in authorization}

\* extractTokenFromHeader, lines 167-173: the set holding the string
\* returned, empty for null.
extractTokenFromHeader(authorization) ==
    {h.rest : h \in {a \in authorization : a.prefix = BearerPrefix}}

\* `if (token)`: neither null nor the empty string.
Truthy(token) == token \ {EmptyString}

\* authMiddleware, lines 15-35: the bearer token.
AuthMiddlewareHeader ==
    /\ rpc = "idle"
    /\ \E authorization \in AuthorizationHeaders, cookie \in Presented :
          LET token == extractTokenFromHeader(authorization)
              header == Truthy(token)
              c == [handler |-> "authMiddleware", authorization |-> authorization,
                    token |-> token, header |-> header, cookie |-> cookie]
              user == IF header = {} THEN {}
                      ELSE UserOfToken(CHOOSE t \in header : TRUE, users, now)
          IN  IF user # {}
              THEN RouteRespond(Ext(c, [user |-> user, by |-> header, at |-> now]))
              ELSE /\ rq' = c
                   /\ rpc' = "cookie"
                   /\ rcall' = {}
    /\ UNCHANGED <<now, ticks, nextJti, users, jwtVars, regVars, oauthVars, mgrVars, extVars>>

\* authMiddleware, lines 38-52: the session cookie.
AuthMiddlewareCookie ==
    /\ rpc = "cookie"
    /\ LET user == validateSessionFromCookie(rq.cookie, users, now)
       IN  RouteRespond(Ext(rq, [user |-> user, at |-> now,
                                 by |-> IF user # {} THEN rq.cookie ELSE {}]))
    /\ UNCHANGED <<now, ticks, nextJti, users, jwtVars, regVars, oauthVars, mgrVars, extVars>>

\* verifyToken, lines 108-146.
VerifyTokenRoute ==
    /\ rpc = "idle"
    /\ \E header \in Presented :
          LET c == [handler |-> "verifyToken", header |-> header, at |-> now]
              r == Verify(CHOOSE t \in header : TRUE, now)
          IN  RouteRespond(Ext(c, [res |->
                 IF header = {}
                 THEN createErrorResponse(ApiError("Authorization header is required", 401), 401)
                 ELSE IF ~r.ok
                 THEN createErrorResponse(ErrorOr(r, "Token verification failed"), 401)
                 ELSE IF ~UserUsable(users, r.value.userId)
                 THEN createErrorResponse(ApiError("User not found or inactive", 401), 401)
                 ELSE createSuccessResponse(r.value.userId, {})]))
    /\ UNCHANGED <<now, ticks, nextJti, users, jwtVars, regVars, oauthVars, mgrVars, extVars>>

\* refreshToken, lines 151-192.
RefreshTokenRoute ==
    /\ rpc = "idle"
    /\ \E body \in Presented :
          LET c == [handler |-> "refreshToken", body |-> body, at |-> now]
              r == Verify(CHOOSE t \in body : TRUE, now)
          IN  RouteRespond(Ext(c, [res |->
                 IF body = {}
                 THEN createErrorResponse(ApiError("Refresh token is required", 400), 401)
                 ELSE IF ~r.ok
                 THEN createErrorResponse(ErrorOr(r, "Token refresh failed"), 401)
                 ELSE IF ~UserUsable(users, r.value.userId)
                 THEN createErrorResponse(ApiError("User not found or inactive", 401), 401)
                 ELSE createSuccessResponse(r.value.userId,
                         {generateUserToken([userId |-> r.value.userId,
                                             email |-> users[r.value.userId].email,
                                             role |-> users[r.value.userId].role], now)})]))
    /\ UNCHANGED <<now, ticks, nextJti, users, jwtVars, regVars, oauthVars, mgrVars, extVars>>

\* upsertUser, lines 66-107: a new user is stored active.
UpsertUser ==
    /\ \E u \in Users :
          /\ u \notin DOMAIN users
          /\ users' = [k \in (DOMAIN users) \cup {u} |->
                          IF k = u THEN [email |-> u, role |-> RoleOfUser(u), is_active |-> TRUE]
                          ELSE users[k]]
    /\ rcall' = {}
    /\ UNCHANGED <<now, ticks, nextJti, rpc, rq, jwtVars, regVars, oauthVars, mgrVars, extVars>>

\* toggleUserStatus, lines 170-180.
ToggleUserStatus ==
    /\ \E u \in DOMAIN users :
          users' = [users EXCEPT ![u].is_active = ~users[u].is_active]
    /\ rcall' = {}
    /\ UNCHANGED <<now, ticks, nextJti, rpc, rq, jwtVars, regVars, oauthVars, mgrVars, extVars>>

\* deleteUser, lines 279-285.
DeleteUser ==
    /\ \E u \in DOMAIN users :
          users' = [k \in (DOMAIN users) \ {u} |-> users[k]]
    /\ rcall' = {}
    /\ UNCHANGED <<now, ticks, nextJti, rpc, rq, jwtVars, regVars, oauthVars, mgrVars, extVars>>

RouteTick ==
    /\ Tick(RouteTickSteps)
    /\ rcall' = {}
    /\ UNCHANGED <<nextJti, users, rpc, rq, jwtVars, regVars, oauthVars, mgrVars, extVars>>

RouteInitVars ==
    /\ users = <<>>
    /\ rpc = "idle"
    /\ rq = Idle
    /\ rcall = {}

MgrInitVars ==
    /\ shadow = <<>>
    /\ access = {}
    /\ mcall = {}

OAuthInitVars ==
    /\ cache = <<>>
    /\ nextState = 0
    /\ issuedAt = <<>>
    /\ cbpc = <<>>
    /\ cb = <<>>
    /\ ncb = 0
    /\ cbdone = {}
    /\ consumed = {}
    /\ passed = <<>>

PermInitVars == pcall = {}
CodecInitVars == ccall = {}

RateProcs == {"q1", "q2"}
AdminProcs == {"a1", "a2"}

RateInitVars ==
    /\ rlCache = <<>>
    /\ rlpc = [p \in RateProcs |-> "idle"]
    /\ rlreq = [p \in RateProcs |-> Idle]
    /\ admitted = <<>>
    /\ rlcall = {}
    /\ nrl = 0

AdminInitVars ==
    /\ apc = [p \in AdminProcs |-> "idle"]
    /\ areq = [p \in AdminProcs |-> Idle]
    /\ adone = {}
    /\ nadmin = 0

ExtInitVars ==
    /\ PermInitVars
    /\ CodecInitVars
    /\ RateInitVars
    /\ AdminInitVars

InitJwt ==
    /\ ExtInitVars
    /\ now = 0
    /\ ticks = 0
    /\ nextJti = 0
    /\ JwtInitVars
    /\ RegInitVars
    /\ OAuthInitVars
    /\ MgrInitVars
    /\ RouteInitVars

NextJwt ==
    \/ JwtSignAccess
    \/ JwtSignRefresh
    \/ JwtGenerateUserToken
    \/ JwtVerify
    \/ JwtVerifyAccess
    \/ JwtVerifyRefresh
    \/ JwtTick

SpecJwt == InitJwt /\ [][NextJwt]_vars

InitReg ==
    /\ ExtInitVars
    /\ now = 0
    /\ ticks = 0
    /\ nextJti = 0
    /\ store = <<>>
    /\ pc = [p \in Procs |-> "idle"]
    /\ call = [p \in Procs |-> Idle]
    /\ ncalls = 0
    /\ done = {}
    /\ known = {}
    /\ deleted = {}
    /\ revoked = {}
    /\ JwtInitVars
    /\ OAuthInitVars
    /\ MgrInitVars
    /\ RouteInitVars

NextReg ==
    \/ \E p \in Procs : StartGenerate(p)
    \/ \E p \in Procs : GenSignRefresh(p)
    \/ \E p \in Procs : GenStore(p)
    \/ \E p \in Procs : StartRefresh(p)
    \/ \E p \in Procs : RefreshCheck(p)
    \/ \E p \in Procs : RefreshReturn(p)
    \/ \E p \in Procs : StartRevoke(p)
    \/ \E p \in Procs : RevokeApply(p)
    \/ RevokeAll
    \/ Cleanup
    \/ Restart
    \/ RegTick

SpecReg == InitReg /\ [][NextReg]_vars

InitOAuth ==
    /\ ExtInitVars
    /\ now = 0
    /\ ticks = 0
    /\ nextJti = 0
    /\ cache = <<>>
    /\ nextState = 0
    /\ issuedAt = <<>>
    /\ cbpc = [p \in CbProcs |-> "idle"]
    /\ cb = [p \in CbProcs |-> Idle]
    /\ ncb = 0
    /\ cbdone = {}
    /\ consumed = {}
    /\ passed = [x \in 0 .. MaxStates |-> 0]
    /\ JwtInitVars
    /\ RegInitVars
    /\ MgrInitVars
    /\ RouteInitVars

NextOAuth ==
    \/ SignInGitHub
    \/ GetGitHubAuthUrl
    \/ \E p \in CbProcs : CallbackGitHubStart(p)
    \/ \E p \in CbProcs : CallbackGitHubGet(p)
    \/ \E p \in CbProcs : CallbackGitHubDelete(p)
    \/ \E p \in CbProcs : CallbackGitHubAuth(p)
    \/ \E p \in CbProcs : HandleGitHubCallbackStart(p)
    \/ \E p \in CbProcs : HandleGitHubCallbackAuth(p)
    \/ OAuthTick

SpecOAuth == InitOAuth /\ [][NextOAuth]_vars

InitMgr ==
    /\ ExtInitVars
    /\ now = 0
    /\ ticks = 0
    /\ nextJti = 0
    /\ shadow = <<>>
    /\ access = {}
    /\ mcall = {}
    /\ JwtInitVars
    /\ RegInitVars
    /\ OAuthInitVars
    /\ RouteInitVars

NextMgr ==
    \/ MgrGenerateTokenPair
    \/ MgrRefreshAccessToken
    \/ MgrRevokeRefreshToken
    \/ MgrRevokeAllUserTokens
    \/ MgrCleanupExpiredTokens
    \/ MgrVerifyAccessToken
    \/ MgrTick

SpecMgr == InitMgr /\ [][NextMgr]_vars

InitRoutes ==
    /\ ExtInitVars
    /\ now = 0
    /\ ticks = 0
    /\ nextJti = 0
    /\ users = <<>>
    /\ rpc = "idle"
    /\ rq = Idle
    /\ rcall = {}
    /\ JwtInitVars
    /\ RegInitVars
    /\ OAuthInitVars
    /\ MgrInitVars

NextRoutes ==
    \/ AuthMiddlewareHeader
    \/ AuthMiddlewareCookie
    \/ VerifyTokenRoute
    \/ RefreshTokenRoute
    \/ UpsertUser
    \/ ToggleUserStatus
    \/ DeleteUser
    \/ RouteTick

SpecRoutes == InitRoutes /\ [][NextRoutes]_vars

\* Every variable at its value after construction, the clock at 0.
InitAll ==
    /\ now = 0
    /\ ticks = 0
    /\ nextJti = 0
    /\ JwtInitVars
    /\ RegInitVars
    /\ OAuthInitVars
    /\ MgrInitVars
    /\ RouteInitVars
    /\ ExtInitVars

(***************************************************************************)
(* SpecPerm: hasPermission as a pure function of the two role strings.     *)
(* roleHierarchy is an object literal, so roleHierarchy[role] finds the    *)
(* three own properties and, for any other key, what Object.prototype      *)
(* holds under it (a built-in function) or undefined.  A value is          *)
(* [t, n, src]: a number n, a function whose source text is 'function '    *)
(* followed by the code units src, or undefined.                           *)
(***************************************************************************)
Num(n) == [t |-> "number", n |-> n, src |-> <<>>]
Fn(src) == [t |-> "function", n |-> 0, src |-> src]
Undefined == [t |-> "undefined", n |-> 0, src |-> <<>>]

roleHierarchy == [user |-> 0, collaborator |-> 1, admin |-> 2]

\* Members of Object.prototype, by the text that follows 'function ' in
\* their source text: 'Object(', 'toString(', 'valueOf('.
ObjectPrototype ==
    [constructor |-> <<79, 98, 106, 101, 99, 116, 40>>,
     toString    |-> <<116, 111, 83, 116, 114, 105, 110, 103, 40>>,
     valueOf     |-> <<118, 97, 108, 117, 101, 79, 102, 40>>]

\* roleHierarchy[key]
Lookup(key) ==
    IF key \in DOMAIN roleHierarchy THEN Num(roleHierarchy[key])
    ELSE IF key \in DOMAIN ObjectPrototype THEN Fn(ObjectPrototype[key])
    ELSE Undefined

\* value ?? fallback
Nullish(value, fallback) == IF value.t = "undefined" THEN Num(fallback) ELSE value

\* a < b on strings: comparison by code units.
RECURSIVE StringLess(_, _)
StringLess(a, b) ==
    IF Len(b) = 0 THEN FALSE
    ELSE IF Len(a) = 0 THEN TRUE
    ELSE IF a[1] # b[1] THEN a[1] < b[1]
    ELSE StringLess(Tail(a), Tail(b))

\* a >= b: two functions convert to their source texts and compare as
\* strings; a function against a number converts to NaN, and the comparison
\* is false.
GreaterOrEqual(a, b) ==
    IF a.t = "function" /\ b.t = "function" THEN ~StringLess(a.src, b.src)
    ELSE IF a.t = "function" \/ b.t = "function" THEN FALSE
    ELSE a.n >= b.n

hasPermission(userRole, requiredRole) ==
    LET userLevel == Nullish(Lookup(userRole), -1)
        requiredLevel == Nullish(Lookup(requiredRole), 999)
    IN  GreaterOrEqual(userLevel, requiredLevel)

RoleInputs ==
    {"user", "collaborator", "admin", "guest", "Admin", "", "superadmin",
     "constructor", "toString", "valueOf", "hasOwn"}

PermCheck ==
    /\ \E userRole \in RoleInputs, requiredRole \in RoleInputs :
          pcall' = {[userRole |-> userRole, requiredRole |-> requiredRole,
                     res |-> hasPermission(userRole, requiredRole)]}
    /\ UNCHANGED <<coreVars, codecVars, rateVars, adminVars>>

NextPerm == PermCheck

SpecPerm == InitAll /\ [][NextPerm]_vars

(***************************************************************************)
(* SpecCodec: base64UrlEncode / base64UrlDecode computed on code units.    *)
(* A string is the sequence of its code units, bytes are 0..255; the       *)
(* inputs are the strings of code units below 256 up to MaxLen.            *)
(***************************************************************************)
MaxLen == 3

ByteSamples == {0, 62, 63, 127, 128, 255}

Plus == 43
Slash == 47
Minus == 45
Underscore == 95
Equals == 61
ReplacementCharacter == 65533

\* new TextEncoder().encode(str), for code units below 0x800.
RECURSIVE Utf8Encode(_)
Utf8Encode(str) ==
    IF Len(str) = 0 THEN <<>>
    ELSE LET c == str[1]
         IN  (IF c < 128 THEN <<c>> ELSE <<192 + (c \div 64), 128 + (c % 64)>>)
             \o Utf8Encode(Tail(str))

\* new TextDecoder().decode(bytes): one- and two-byte sequences, U+FFFD for a
\* byte that starts no well-formed sequence.
RECURSIVE Utf8Decode(_)
Utf8Decode(bytes) ==
    IF Len(bytes) = 0 THEN <<>>
    ELSE LET b == bytes[1]
         IN  IF b < 128 THEN <<b>> \o Utf8Decode(Tail(bytes))
             ELSE IF /\ b >= 194 /\ b < 224 /\ Len(bytes) >= 2
                     /\ bytes[2] >= 128 /\ bytes[2] < 192
                  THEN <<(b - 192) * 64 + (bytes[2] - 128)>> \o Utf8Decode(Tail(Tail(bytes)))
                  ELSE <<ReplacementCharacter>> \o Utf8Decode(Tail(bytes))

\* The base64 alphabet: A-Z a-z 0-9 + /
Base64Char(i) ==
    IF i < 26 THEN 65 + i
    ELSE IF i < 52 THEN 97 + (i - 26)
    ELSE IF i < 62 THEN 48 + (i - 52)
    ELSE IF i = 62 THEN Plus ELSE Slash

Base64Value(c) ==
    IF c = Plus THEN 62
    ELSE IF c = Slash THEN 63
    ELSE IF c = Equals THEN 0
    ELSE IF c >= 97 THEN c - 97 + 26
    ELSE IF c >= 65 THEN c - 65
    ELSE c - 48 + 52

\* btoa(String.fromCharCode(...data))
RECURSIVE Btoa(_)
Btoa(data) ==
    IF Len(data) = 0 THEN <<>>
    ELSE LET b2 == IF Len(data) >= 2 THEN data[2] ELSE 0
             b3 == IF Len(data) >= 3 THEN data[3] ELSE 0
             n == data[1] * 65536 + b2 * 256 + b3
             c1 == Base64Char(n \div 262144)
             c2 == Base64Char((n \div 4096) % 64)
             c3 == Base64Char((n \div 64) % 64)
             c4 == Base64Char(n % 64)
         IN  IF Len(data) = 1 THEN <<c1, c2, Equals, Equals>>
             ELSE IF Len(data) = 2 THEN <<c1, c2, c3, Equals>>
             ELSE <<c1, c2, c3, c4>> \o Btoa(SubSeq(data, 4, Len(data)))

\* atob(base64) on padded input, as the list of the char codes it returns.
RECURSIVE Atob(_)
Atob(base64) ==
    IF Len(base64) < 4 THEN <<>>
    ELSE LET n == Base64Value(base64[1]) * 262144 + Base64Value(base64[2]) * 4096
                  + Base64Value(base64[3]) * 64 + Base64Value(base64[4])
             all == <<n \div 65536, (n \div 256) % 256, n % 256>>
         IN  IF base64[3] = Equals THEN SubSeq(all, 1, 1)
             ELSE IF base64[4] = Equals THEN SubSeq(all, 1, 2)
             ELSE all \o Atob(SubSeq(base64, 5, Len(base64)))

ReplaceAll(str, from, to) == [i \in 1..Len(str) |-> IF str[i] = from THEN to ELSE str[i]]

RECURSIVE Strip(_, _)
Strip(str, c) ==
    IF Len(str) = 0 THEN <<>>
    ELSE (IF str[1] = c THEN <<>> ELSE <<str[1]>>) \o Strip(Tail(str), c)

UrlAlphabetKeepsSlash(base64) == Strip(ReplaceAll(base64, Plus, Minus), Equals)

\* .replace(/\+/g, '-').replace(/\//g, '_').replace(/=/g, '')
UrlAlphabet(base64) ==
    Strip(ReplaceAll(ReplaceAll(base64, Plus, Minus), Slash, Underscore), Equals)

\* str + '='.repeat((4 - str.length % 4) % 4)
Padded(str) == str \o [i \in 1..((4 - (Len(str) % 4)) % 4) |-> Equals]

\* base64UrlEncode, on code units.
Base64UrlEncode(str) == UrlAlphabet(Btoa(Utf8Encode(str)))

\* base64UrlDecode, on code units.
Base64UrlDecode(str) ==
    LET base64 == ReplaceAll(ReplaceAll(Padded(str), Minus, Plus), Underscore, Slash)
    IN  Utf8Decode(Atob(base64))

RECURSIVE SeqsUpTo(_, _)
SeqsUpTo(S, n) ==
    IF n = 0 THEN {<<>>}
    ELSE LET shorter == SeqsUpTo(S, n - 1)
         IN  shorter \cup {Append(q, x) : q \in shorter, x \in S}

CodecInputs == SeqsUpTo(ByteSamples, MaxLen)

CodecRoundTrip ==
    /\ \E b \in CodecInputs :
          ccall' = {[input |-> b, encoded |-> Base64UrlEncode(b),
                     decoded |-> Base64UrlDecode(Base64UrlEncode(b))]}
    /\ UNCHANGED <<coreVars, permVars, rateVars, adminVars>>

NextCodec == CodecRoundTrip

SpecCodec == InitAll /\ [][NextCodec]_vars

(***************************************************************************)
(* SpecRate: rateLimitMiddleware as the router applies it to               *)
(* POST /api/files/upload, for the requests of one client key.  A request  *)
(* reads the counter of its window (the first await) and, unless it        *)
(* throws, writes the count it read plus one (the second await); other     *)
(* requests run between the two.  The counter is stored as a string.  An   *)
(* entry is written with a lifetime of one window and so outlives the      *)
(* window it counts.                                                       *)
(***************************************************************************)
MaxRateCalls == 11

WindowMs == 60 * 1000
MaxRequests == 10

\* Math.floor(now / windowMs) * windowMs
WindowStart(ms) == (ms \div WindowMs) * WindowMs

\* currentCount ? parseInt(currentCount) : 0
CurrentCount(kv, key) == IF key \in DOMAIN kv THEN kv[key][2] ELSE 0

\* lines 139-148: the window, the read of the counter, the limit.
RateGet(p) ==
    /\ rlpc[p] = "idle"
    /\ nrl < MaxRateCalls
    /\ nrl' = nrl + 1
    /\ LET rateLimitKey == WindowStart(now)
           count == CurrentCount(rlCache, rateLimitKey)
       IN  IF count >= MaxRequests
           THEN /\ rlcall' = {[key |-> rateLimitKey, count |-> count, cacheBefore |-> rlCache,
                               res |-> ApiError("Rate limit exceeded", 429)]}
                /\ UNCHANGED <<rlpc, rlreq>>
           ELSE /\ rlpc' = [rlpc EXCEPT ![p] = "put"]
                /\ rlreq' = [rlreq EXCEPT ![p] = [key |-> rateLimitKey, count |-> count]]
                /\ rlcall' = {}
    /\ UNCHANGED <<rlCache, admitted>>
    /\ UNCHANGED <<coreVars, permVars, codecVars, adminVars>>

\* lines 151-155: the write of the counter, and the return.
RatePut(p) ==
    /\ rlpc[p] = "put"
    /\ LET key == rlreq[p].key
       IN  /\ rlCache' = Put(rlCache, key, <<"string", rlreq[p].count + 1>>)
           /\ admitted' = Put(admitted, key,
                               (IF key \in DOMAIN admitted THEN admitted[key] ELSE 0) + 1)
           /\ rlcall' = {[key |-> key, count |-> rlreq[p].count, cacheBefore |-> rlCache,
                          res |-> Return("context")]}
    /\ rlpc' = [rlpc EXCEPT ![p] = "idle"]
    /\ rlreq' = [rlreq EXCEPT ![p] = Idle]
    /\ UNCHANGED <<nrl, coreVars, permVars, codecVars, adminVars>>

RateTick ==
    /\ Tick({WindowMs})
    /\ rlcall' = {}
    /\ UNCHANGED <<nextJti, jwtVars, regVars, oauthVars, mgrVars, routeVars,
                   rlCache, rlpc, rlreq, admitted, nrl, permVars, codecVars, adminVars>>

NextRate ==
    \/ \E p \in RateProcs : RateGet(p)
    \/ \E p \in RateProcs : RatePut(p)
    \/ RateTick

SpecRate == InitAll /\ [][NextRate]_vars

(***************************************************************************)
(* SpecAdmin: the user-administration routes PUT /api/users/:id/role,      *)
(* PUT /api/users/:id/status and DELETE /api/users/:id.  A request carries *)
(* the access token its user was given at login (signed at clock reading   *)
(* 0, with the role the user had then).  The router runs authMiddleware,   *)
(* which reads the user row, then the handler, which checks the context,   *)
(* reads the target row, and writes; other requests run between these      *)
(* three steps.  Both users exist and are active at the start, one of them *)
(* an administrator.                                                       *)
(***************************************************************************)
MaxAdminCalls == 3

ContextUserFromClaims(payload, db) ==
    IF UserUsable(db, payload.userId)
    THEN {[id |-> payload.userId, role |-> payload.role]}
    ELSE {}

\* context.user as authMiddleware sets it, lines 23-29 of the middleware: the
\* row getUserById returns when it is active, else none.
ContextUser(payload, db) ==
    IF UserUsable(db, payload.userId)
    THEN {[id |-> payload.userId, role |-> db[payload.userId].role]}
    ELSE {}

\* authMiddleware for a request of the user actor, and the route taken.
AdminAuth(p) ==
    /\ apc[p] = "idle"
    /\ nadmin < MaxAdminCalls
    /\ nadmin' = nadmin + 1
    /\ \E actor \in Users, userId \in Users,
          route \in {[op |-> "updateUserRole", role |-> "admin"],
                     [op |-> "updateUserRole", role |-> "user"],
                     [op |-> "updateUserRole", role |-> "owner"],
                     [op |-> "toggleUserStatus", role |-> ""],
                     [op |-> "deleteUser", role |-> ""]} :
          LET token == signAccessToken(UserClaims(actor), AccessTokenExpiresIn, 0)
              r == Verify(token, now)
          IN  areq' = [areq EXCEPT ![p] =
                          [op |-> route.op, role |-> route.role, userId |-> userId,
                           token |-> token,
                           user |-> IF r.ok THEN ContextUser(r.value, users) ELSE {},
                           storedRole |-> IF actor \in DOMAIN users THEN {users[actor].role}
                                          ELSE {},
                           newStatus |-> FALSE]]
    /\ apc' = [apc EXCEPT ![p] = "handler"]
    /\ adone' = {}
    /\ UNCHANGED <<now, ticks, nextJti, jwtVars, regVars, oauthVars, mgrVars, routeVars,
                   permVars, codecVars, rateVars>>

\* updateUserRole lines 98-124, toggleUserStatus lines 154-172, deleteUser
\* lines 263-279: the checks on the context and the read of the target row.
AdminCheck(p) ==
    /\ apc[p] = "handler"
    /\ LET c == areq[p]
           error ==
               IF c.user = {} THEN {ApiError("Authentication required", 401)}
               ELSE IF \E u \in c.user : ~hasPermission(u.role, "admin")
               THEN {ApiError("Insufficient permissions", 403)}
               ELSE IF c.op = "updateUserRole" /\ c.role \notin {"admin", "collaborator", "user"}
               THEN {ApiError("Invalid role", 400)}
               ELSE IF \E u \in c.user : u.id = c.userId
               THEN {ApiError(CASE c.op = "updateUserRole" -> "Cannot modify your own role"
                                [] c.op = "toggleUserStatus" -> "Cannot disable your own account"
                                [] c.op = "deleteUser" -> "Cannot delete your own account", 400)}
               ELSE IF c.userId \notin DOMAIN users
               THEN {ApiError("User not found", 404)}
               ELSE {}
       IN  IF error # {}
           THEN /\ adone' = {Ext(c, [res |-> createErrorResponse(CHOOSE e \in error : TRUE, 500),
                                     usersBefore |-> users])}
                /\ apc' = [apc EXCEPT ![p] = "idle"]
                /\ areq' = [areq EXCEPT ![p] = Idle]
           ELSE /\ adone' = {}
                /\ apc' = [apc EXCEPT ![p] = "write"]
                /\ areq' = [areq EXCEPT ![p] =
                               Ext(c, [newStatus |-> ~users[c.userId].is_active])]
    /\ UNCHANGED <<now, ticks, nextJti, jwtVars, regVars, oauthVars, mgrVars, routeVars,
                   nadmin, permVars, codecVars, rateVars>>

\* The UPDATE or DELETE statement (updateUserRole lines 127-129,
\* toggleUserStatus lines 177-179, deleteUser line 282) and the response.
\* A statement whose WHERE clause matches no row changes nothing.
AdminWrite(p) ==
    /\ apc[p] = "write"
    /\ LET c == areq[p]
       IN  /\ users' =
                 IF c.userId \notin DOMAIN users THEN users
                 ELSE IF c.op = "updateUserRole" THEN [users EXCEPT ![c.userId].role = c.role]
                 ELSE IF c.op = "toggleUserStatus"
                      THEN [users EXCEPT ![c.userId].is_active = c.newStatus]
                 ELSE Remove(users, {c.userId})
           /\ adone' = {Ext(c, [res |-> createSuccessResponse(c.userId, {}),
                                usersBefore |-> users])}
    /\ apc' = [apc EXCEPT ![p] = "idle"]
    /\ areq' = [areq EXCEPT ![p] = Idle]
    /\ UNCHANGED <<now, ticks, nextJti, jwtVars, regVars, oauthVars, mgrVars, rpc, rq, rcall,
                   nadmin, permVars, codecVars, rateVars>>

InitAdmin ==
    /\ now = 0
    /\ ticks = 0
    /\ nextJti = 0
    /\ JwtInitVars
    /\ RegInitVars
    /\ OAuthInitVars
    /\ MgrInitVars
    /\ ExtInitVars
    /\ users = [u \in Users |-> [email |-> u, role |-> RoleOfUser(u), is_active |-> TRUE]]
    /\ rpc = "idle"
    /\ rq = Idle
    /\ rcall = {}

NextAdmin ==
    \/ \E p \in AdminProcs : AdminAuth(p)
    \/ \E p \in AdminProcs : AdminCheck(p)
    \/ \E p \in AdminProcs : AdminWrite(p)

SpecAdmin == InitAdmin /\ [][NextAdmin]_vars

(***************************************************************************)
(* Claims about JWT.verify, checked under SpecJwt.                         *)
(***************************************************************************)
BadSignature == ApiError("Invalid token signature", 401)

\* The token has three segments and its signature segment was made for other
\* header/payload segments than the ones it now carries, or under another key.
Tampered(t) ==
    /\ Len(t) = 3
    /\ \/ \E o \in minted : t[3] = o[3] /\ <<t[1], t[2]>> # <<o[1], o[2]>>
       \/ t[3][2] # Secret

\* C8: every verify call on a token whose header or payload segment differs from
\* the signed one, the signature not being recomputed under the secret, fails
\* with 'Invalid token signature' (401) and returns no claims, whatever the
\* tampered payload holds (not JSON, an expiry in the past or in the future).
C8_TamperingDetected ==
    \A c \in vcall : Tampered(c.tok) => c.res = BadSignature

\* C8 witness: a verify call on a token of a non-admin user whose payload was
\* rewritten to role admin under the original signature has been rejected.
C8_Witness ==
    \E c \in vcall : \E o \in minted :
        /\ PayloadOf(o).role = "user"
        /\ c.tok = <<o[1], EncodePayload(Ext(PayloadOf(o), [role |-> "admin"])), o[3]>>
        /\ c.res = BadSignature

SignatureMatches(t) == t[3] = <<"hmac", Secret, t[1], t[2]>>
PayloadIsJson(t) == t[2][2][1] = "json"

\* C9: JWT.verify fails in the order segment count, signature, payload parse,
\* expiry, each failure an authentication error (ApiError) with status 401 and a
\* message of its own, and returns the claims only when all four checks pass.
C9_OrderedAuthErrors ==
    \A c \in vcall :
        LET t == c.tok
            r == c.res
        IN  /\ ~r.ok => r.name = "ApiError" /\ r.status = 401
            /\ IF Len(t) # 3 THEN ~r.ok /\ r.message = "Invalid token format"
               ELSE IF ~SignatureMatches(t) THEN ~r.ok /\ r.message = "Invalid token signature"
               ELSE IF ~PayloadIsJson(t)
                    THEN /\ ~r.ok
                         /\ r.message \notin {"Invalid token format", "Invalid token signature",
                                              "Token has expired"}
               ELSE IF t[2][2][2].exp < c.at \div 1000
                    THEN ~r.ok /\ r.message = "Token has expired"
               ELSE r.ok /\ r.value = t[2][2][2]

\* C10: a correctly signed token is rejected with 'Token has expired' exactly
\* when the clock has reached the second after exp, that is from millisecond
\* (exp + 1) * 1000 on, and is accepted with its claims at every earlier reading;
\* a token whose exp is iat - 1 (signed with expiresIn = -1) is never accepted.
C10_ExpiryOnSeconds ==
    \A c \in vcall : \A o \in minted :
        c.tok = o =>
            LET exp == PayloadOf(o).exp
            IN  /\ c.at >= (exp + 1) * 1000 <=> c.res = ApiError("Token has expired", 401)
                /\ c.at < (exp + 1) * 1000 <=> c.res = Return(PayloadOf(o))
                /\ exp = PayloadOf(o).iat - 1 => c.res = ApiError("Token has expired", 401)

\* C10 witness: a token has been accepted at a clock reading inside the second
\* of its exp, later than the instant it was signed at.
C10_Witness ==
    \E c \in vcall : \E o \in minted :
        /\ c.tok = o
        /\ c.at \div 1000 = PayloadOf(o).exp
        /\ c.at > PayloadOf(o).iat * 1000
        /\ c.res.ok

WrongKindForAccess  == ApiError("Invalid access token", 401)
WrongKindForRefresh == ApiError("Invalid refresh token", 401)

\* The kind the signing operation gave the token: its type claim, or "none"
\* for a token of generateUserToken, which carries no type claim.
KindOf(payload) == IF "type" \in DOMAIN payload THEN payload.type ELSE "none"

\* C11: token kinds are not interchangeable.  verifyAccessToken returns the
\* claims of a token only if its type is access and verifyRefreshToken only if
\* its type is refresh; a token that JWT.verify accepts is rejected by
\* verifyAccessToken with 'Invalid access token' (401) when it was minted by
\* signRefreshToken or carries no type, and by verifyRefreshToken with
\* 'Invalid refresh token' (401) when it was minted by signAccessToken or
\* carries no type; a token that JWT.verify rejects fails both the same way.
C11_KindsNotInterchangeable ==
    \A c \in kcall :
        LET v == Verify(c.tok, c.at)
            wanted == IF c.fn = "verifyAccessToken" THEN "access" ELSE "refresh"
            wrong == IF c.fn = "verifyAccessToken" THEN WrongKindForAccess
                     ELSE WrongKindForRefresh
        IN  /\ c.res.ok => KindOf(c.res.value) = wanted
            /\ ~v.ok => c.res = v
            /\ v.ok => IF KindOf(v.value) = wanted THEN c.res = v ELSE c.res = wrong
            /\ \A o \in minted :
                  (c.tok = o /\ KindOf(PayloadOf(o)) # wanted) => ~c.res.ok

\* C11 witness: an unexpired token minted by signRefreshToken has been rejected
\* by verifyAccessToken for its kind.
C11_Witness ==
    \E c \in kcall :
        /\ c.fn = "verifyAccessToken"
        /\ c.tok \in minted
        /\ Verify(c.tok, c.at).ok
        /\ KindOf(PayloadOf(c.tok)) = "refresh"
        /\ c.res = WrongKindForAccess

\* C21: authentication failures do not tell which check failed.  Whenever a
\* call of JWT.verify, verifyAccessToken or verifyRefreshToken has failed, every
\* other string derived from the minted token that the same operation rejects
\* at that clock reading is rejected with the very same error.
C21_FailuresIndistinguishable ==
    /\ \A c \in vcall : ~c.res.ok =>
          \A o \in minted : \A t \in Derived(o) :
              ~Verify(t, c.at).ok => Verify(t, c.at) = c.res
    /\ \A c \in kcall : ~c.res.ok =>
          \A o \in minted : \A t \in Derived(o) :
              LET r == IF c.fn = "verifyAccessToken" THEN verifyAccessToken(t, c.at)
                       ELSE verifyRefreshToken(t, c.at)
              IN  ~r.ok => r = c.res

\* The claims a signing operation adds to the caller's payload.
IssuedAt(t) == PayloadOf(t).iat
TtlOf(t) == PayloadOf(t).exp - PayloadOf(t).iat

\* C23: at the clock reading of its issuance, verifyAccessToken on a token of
\* signAccessToken and verifyRefreshToken on a token of signRefreshToken, signed
\* with a lifetime that is not negative, succeed and return the caller's claims
\* (userId, email, role) extended with type = access, resp. type = refresh and
\* the jti, with iat = the second of issuance and exp = iat + the lifetime
\* (900 s and 604800 s being the defaults).
C23_IssueVerifyRoundTrip ==
    \A c \in kcall : \A o \in minted :
        LET kind == IF c.fn = "verifyAccessToken" THEN "access" ELSE "refresh"
        IN  ( /\ c.tok = o
              /\ KindOf(PayloadOf(o)) = kind
              /\ NowSeconds(c.at) = IssuedAt(o)
              /\ TtlOf(o) >= 0 )
            => /\ c.res.ok
               /\ \E u \in Users, ttl \in ExpiresInChoices :
                     LET stamped == [type |-> kind, iat |-> NowSeconds(c.at),
                                     exp |-> NowSeconds(c.at) + ttl]
                     IN  IF kind = "access"
                         THEN c.res.value = Ext(UserClaims(u), stamped)
                         ELSE \E jti \in JtiChoices :
                                 c.res.value = Ext(UserClaims(u), Ext(stamped, [jti |-> jti]))

\* C23 witness: an access token signed with the default lifetime of 900 s has
\* been verified by verifyAccessToken within the second of its issuance, and the
\* claims returned carry the type access and exp = iat + 900.
C23_Witness ==
    \E c \in kcall : \E u \in Users :
        /\ c.fn = "verifyAccessToken"
        /\ c.tok \in minted
        /\ c.res = Return(Ext(UserClaims(u),
                              [type |-> "access", iat |-> NowSeconds(c.at),
                               exp |-> NowSeconds(c.at) + AccessTokenExpiresIn]))

\* C24: every token a signing operation has produced, whatever payload and
\* lifetime the caller supplied, has exp > iat, and carries a jti if and only if
\* its type is refresh.
C24_ClaimsInvariant ==
    \A o \in minted :
        /\ PayloadOf(o).exp > PayloadOf(o).iat
        /\ HasJti(PayloadOf(o)) <=> KindOf(PayloadOf(o)) = "refresh"

(***************************************************************************)
(* Claims about the refresh-token registry, checked under SpecReg.         *)
(***************************************************************************)
JtiOfToken(t) == t[2][2][2].jti
OwnerOfToken(t) == t[2][2][2].userId

\* C1: a refreshAccessToken call returns an access token only if the registry
\* held a record under the token's jti when the call began and when the call
\* consulted the registry; a call begun on a token whose jti has no record
\* (never registered, revoked, or registered before a restart) throws
\* 'Invalid refresh token' (401) and mints no access token.
C1_RefreshNeedsRecord ==
    \A c \in done :
        c.op = "refresh" =>
            /\ c.res.ok => c.recordAtStart /\ c.recordAtCheck
            /\ ~c.recordAtStart =>
                  /\ c.res = ApiError("Invalid refresh token", 401)
                  /\ "accessToken" \notin DOMAIN c

\* C1 witness: a refresh token handed out by generateTokenPair, correctly signed
\* and unexpired, has been refused because its record was gone when the call began.
C1_Witness ==
    \E c \in done :
        /\ c.op = "refresh"
        /\ c.tok \in known
        /\ Verify(c.tok, now).ok
        /\ ~c.recordAtStart
        /\ c.res = ApiError("Invalid refresh token", 401)

\* C2: a token id whose record has been removed never has a record again, and a
\* refreshAccessToken call begun after a revokeRefreshToken call on the same
\* token returned never gets as far as minting: it throws 'Invalid refresh token'.
C2_NoResurrection ==
    /\ deleted \cap DOMAIN store = {}
    /\ \A p \in Procs : pc[p] = "r_sign" => ~call[p].revokedAtStart
    /\ \A c \in done :
          c.op = "refresh" /\ c.revokedAtStart => c.res = ApiError("Invalid refresh token", 401)

\* C2 witness: a refresh call begun after the revoke of a registered, still valid
\* token has failed, the token's record being among the removed ones.
C2_Witness ==
    \E c \in done :
        /\ c.op = "refresh"
        /\ c.revokedAtStart
        /\ c.tok \in known
        /\ JtiOfToken(c.tok) \in deleted
        /\ Verify(c.tok, now).ok
        /\ c.res = ApiError("Invalid refresh token", 401)

\* C3: no refreshAccessToken call returns an access token once a
\* revokeRefreshToken call on the same token has deleted the record and returned.
C3_RevokeRaceResolved ==
    \A c \in done :
        c.op = "refresh" /\ c.res.ok => ~c.revokedAtReturn

\* C4: a revokeAllUserTokens(u) step removes every record owned by u and leaves
\* every other record as it was; right after it a refresh of any token issued to
\* u fails, and a refresh of a token issued to another user fares as it would
\* have right before.
C4_RevokeAllFrame ==
    [][\A u \in Users :
          RevokeAllOf(u) =>
              /\ DOMAIN store' = {j \in DOMAIN store : store[j].userId # u}
              /\ \A j \in DOMAIN store' : store'[j] = store[j]
              /\ \A t \in known :
                    IF OwnerOfToken(t) = u
                    THEN ~RefreshSucceeds(t, store', now')
                    ELSE RefreshSucceeds(t, store', now') <=> RefreshSucceeds(t, store, now)
      ]_vars

\* C4 witness: with no revoke call made and before any stored expiry, the record
\* of a token issued to u1 is gone while a token issued earlier to u2 still has
\* its record and would be refreshed.
C4_Witness ==
    \E t1 \in known : \E t2 \in known :
        /\ OwnerOfToken(t1) = "u1"
        /\ OwnerOfToken(t2) = "u2"
        /\ JtiOfToken(t2) < JtiOfToken(t1)
        /\ JtiOfToken(t1) \in deleted
        /\ revoked = {}
        /\ now <= t1[2][2][2].exp * 1000
        /\ RefreshSucceeds(t2, store, now)
        /\ ~RefreshSucceeds(t1, store, now)

\* The record generateTokenPair stores for the refresh token t.
RecordFor(t) ==
    [userId |-> OwnerOfToken(t), expiresAt |-> PayloadOf(t).exp * MsPerSecond]

C15_Records ==
    /\ \A c \in done :
          (c.op = "generate" /\ c.res.ok) =>
              /\ OwnerOfToken(c.res.value.refreshToken) = c.user.userId
              /\ JtiOfToken(c.res.value.refreshToken) \in DOMAIN store
    /\ \A t \in known :
          /\ JtiOfToken(t) \in DOMAIN store => store[JtiOfToken(t)] = RecordFor(t)
          /\ \A t2 \in known : JtiOfToken(t2) = JtiOfToken(t) => t2 = t
    /\ \A j \in DOMAIN store : \E t \in known : JtiOfToken(t) = j

C15_StoreStep ==
    \A p \in Procs :
        GenStore(p) =>
            /\ \A j \in DOMAIN store : j \in DOMAIN store' /\ store'[j] = store[j]
            /\ Cardinality(DOMAIN store') <= Cardinality(DOMAIN store) + 1

\* C15: under any interleaving of generateTokenPair calls at their await
\* points, every refresh token returned has a record under its own jti when the
\* call returns; a record in the registry is the one stored for the token with
\* that jti (its user, its exp in milliseconds), no two tokens share a jti, and
\* the step that stores a record leaves every other record as it was.
C15_ConcurrentIssueIsolated ==
    []C15_Records /\ [][C15_StoreStep]_vars

\* C15 witness: a generateTokenPair call has returned for one user after a call
\* for another user, which drew its jti later, had already stored its record;
\* both records are in the registry.
C15_Witness ==
    \E c \in done : \E t2 \in known :
        /\ c.op = "generate"
        /\ c.res.ok
        /\ JtiOfToken(t2) > JtiOfToken(c.res.value.refreshToken)
        /\ OwnerOfToken(t2) # c.user.userId
        /\ JtiOfToken(t2) \in DOMAIN store
        /\ JtiOfToken(c.res.value.refreshToken) \in DOMAIN store

(***************************************************************************)
(* Claims on the OAuth handshake state (SpecOAuth).                        *)
(***************************************************************************)
\* The callbackGitHub requests that have read the state entry: in flight
\* past the read, or just responded.
StateChecked ==
    {c \in cbdone \cup {cb[p] : p \in CbProcs} :
        /\ "handler" \in DOMAIN c
        /\ c.handler = "callbackGitHub"
        /\ "getAt" \in DOMAIN c}

StateOf(c) == CHOOSE x \in c.state : TRUE

\* The state was issued by this system, is younger than the TTL and no
\* callback has deleted it.
StateLive(c) ==
    /\ StateOf(c) \in DOMAIN issuedAt
    /\ c.getAt - issuedAt[StateOf(c)] < OAuthStateTtl * MsPerSecond
    /\ ~c.consumedAtGet

\* C5: the OAuth state is one-time use.  A callbackGitHub request reads the
\* state as valid exactly when the state was issued, is younger than 600 s and
\* has not been deleted by a callback; so a state presented after it was
\* consumed, a state never issued and a state older than 600 s are rejected
\* with the invalid_state redirect and no token, and a callback that passed
\* the check has left no entry for the state once its delete completed.
C5_StateOneTimeUse ==
    /\ \A c \in StateChecked :
          /\ (c.storedState # {}) <=> StateLive(c)
          /\ c.consumedAtStart => c.storedState = {}
          /\ StateOf(c) = NeverIssued => c.storedState = {}
          /\ (c \in cbdone /\ c.storedState = {})
                => c.res = Redirect("/auth/error?error=invalid_state")
    /\ \A p \in CbProcs :
          (cbpc[p] = "cb_auth" /\ cb[p].handler = "callbackGitHub" /\ cb[p].state # {})
             => /\ StateOf(cb[p]) \notin DOMAIN cache
                /\ CacheGet(cache, StateOf(cb[p]), now) = {}

\* C5 witness: a state that one callback was accepted with and deleted is
\* presented again, still younger than 600 s, and is rejected.
C5_Witness ==
    \E c \in cbdone :
        /\ c \in StateChecked
        /\ c.consumedAtStart
        /\ passed[StateOf(c)] = 1
        /\ c.getAt - issuedAt[StateOf(c)] < OAuthStateTtl * MsPerSecond
        /\ c.res = Redirect("/auth/error?error=invalid_state")

\* C6: no login completes without a valid state: every callback that responds
\* with a session token has read its state as valid in the store.
C6_LoginNeedsValidState ==
    \A c \in cbdone :
        c.res.token # {} => (c \in StateChecked /\ c.storedState # {} /\ StateLive(c))

\* C7: under concurrent callbacks carrying the same issued state, at most one
\* passes the state check.
C7_AtMostOnePasses ==
    \A x \in DOMAIN passed : passed[x] <= 1

(***************************************************************************)
(* Claims about the TokenManager's methods, checked under SpecMgr.         *)
(***************************************************************************)
RefreshTokenExpired == ApiError("Refresh token expired", 401)

\* The refresh calls made on a token generateTokenPair handed out.
RefreshCalls == {c \in mcall : c.op = "refresh" /\ c.tok \in known}

\* The registry held a record for the call's token when the call began, and
\* the record's expiry had passed.
RecordStale(c) ==
    /\ JtiOfToken(c.tok) \in DOMAIN c.storeBefore
    /\ c.at > c.storeBefore[JtiOfToken(c.tok)].expiresAt

\* C13: a refreshAccessToken call that finds a record whose stored expiresAt
\* has passed fails with 'Refresh token expired', an error other than 'Invalid
\* refresh token', and the stale record is gone from the registry afterwards.
C13_ExpiredRecordReported ==
    \A c \in RefreshCalls :
        RecordStale(c) =>
            /\ c.res = RefreshTokenExpired
            /\ c.res # InvalidRefreshToken
            /\ JtiOfToken(c.tok) \notin DOMAIN store

\* C14: a successful refreshAccessToken call returns one access token, signed
\* by the engine, of type access, carrying the refresh token's userId, email
\* and role and expiring 900 s after it was minted; the registry is the one the
\* call found, so the same refresh token would be exchanged again right away.
C14_RefreshMintsAndKeeps ==
    \A c \in mcall :
        (c.op = "refresh" /\ c.res.ok) =>
            LET a == PayloadOf(c.res.value.accessToken)
                r == PayloadOf(c.tok)
            IN  /\ Verify(c.res.value.accessToken, now).ok
                /\ a.type = "access"
                /\ a.userId = r.userId /\ a.email = r.email /\ a.role = r.role
                /\ a.iat = NowSeconds(c.at)
                /\ a.exp - a.iat = 15 * 60
                /\ c.res.value.expiresIn = 15 * 60
                /\ "jti" \notin DOMAIN a
                /\ store = c.storeBefore
                /\ RefreshSucceeds(c.tok, store, now)

\* C14 witness: a refresh token has been exchanged at a later clock reading
\* than the one it was issued at, and its record is still in the registry.
C14_Witness ==
    \E c \in RefreshCalls :
        /\ c.res.ok
        /\ c.at > PayloadOf(c.tok).iat * MsPerSecond
        /\ JtiOfToken(c.tok) \in DOMAIN store

\* C16: revokeRefreshToken returns normally for every input string; a token
\* that fails verification (malformed, badly signed, expired, an access token)
\* or has no record (already revoked, never registered) leaves the registry as
\* it was; a verified token with a record loses that record and no other; and
\* a second revoke of the same token changes nothing more.
C16_RevokeTotalIdempotent ==
    \A c \in mcall :
        c.op = "revoke" =>
            LET v == verifyRefreshToken(c.tok, c.at)
                held == v.ok /\ HasJti(v.value) /\ v.value.jti \in DOMAIN c.storeBefore
            IN  /\ c.res = Return("void")
                /\ ~held => store = c.storeBefore
                /\ held => /\ DOMAIN store = (DOMAIN c.storeBefore) \ {v.value.jti}
                           /\ \A j \in DOMAIN store : store[j] = c.storeBefore[j]
                /\ c.again = store

\* C16 witness: revokeRefreshToken has been called on a handed-out refresh
\* token that still verifies and whose record had already been removed, and
\* has returned with the registry as it was.
C16_Witness ==
    \E c \in mcall :
        /\ c.op = "revoke"
        /\ c.tok \in known
        /\ verifyRefreshToken(c.tok, c.at).ok
        /\ JtiOfToken(c.tok) \in deleted
        /\ JtiOfToken(c.tok) \notin DOMAIN c.storeBefore
        /\ c.storeBefore # <<>>
        /\ c.res = Return("void")
        /\ store = c.storeBefore

\* C17: cleanupExpiredTokens removes exactly the records whose expiresAt lies
\* before the current time and leaves every other record with its key, owner
\* and expiry.
C17_CleanupFrame ==
    \A c \in mcall :
        c.op = "cleanup" =>
            /\ DOMAIN store = {j \in DOMAIN c.storeBefore : c.storeBefore[j].expiresAt >= c.at}
            /\ \A j \in DOMAIN store : store[j] = c.storeBefore[j]

\* C17 witness: a cleanup found one record past its expiry and one not and
\* removed the first only.
C17_Witness ==
    \E c \in mcall :
        /\ c.op = "cleanup"
        /\ \E j \in DOMAIN c.storeBefore : c.storeBefore[j].expiresAt < c.at
        /\ store # <<>>
        /\ Cardinality(DOMAIN store) < Cardinality(DOMAIN c.storeBefore)

\* C18: sweeping has no effect on refreshes.  With shadow the registry that the
\* same calls produce when no cleanupExpiredTokens call is made, every
\* refreshAccessToken call has the outcome it has on shadow, and in every state
\* every token would be refreshed on the one exactly when on the other.
C18_SweepIrrelevant ==
    /\ \A c \in mcall : c.op = "refresh" => c.res = c.shadowRes
    /\ \A t \in MgrInputs :
          refreshAccessToken(store, t, now).res.ok <=> refreshAccessToken(shadow, t, now).res.ok

\* C18 witness: a refresh has failed on a token whose record a cleanup removed
\* and which the registry without cleanups still holds.
C18_Witness ==
    \E c \in mcall :
        /\ c.op = "refresh"
        /\ c.tok \in known
        /\ JtiOfToken(c.tok) \in DOMAIN shadow
        /\ JtiOfToken(c.tok) \notin DOMAIN store
        /\ ~c.res.ok

\* C19: TokenManager.verifyAccessToken on an access token handed out by
\* generateTokenPair returns its claims at every clock reading up to the end of
\* the second exp and fails with 'Token has expired' afterwards, whatever the
\* registry holds: revoking the refresh token issued with it, or all the
\* user's tokens, changes nothing.
C19_VerifyIgnoresRegistry ==
    /\ \A c \in mcall :
          (c.op = "verifyAccess" /\ c.tok \in access) =>
              IF NowSeconds(c.at) > PayloadOf(c.tok).exp
              THEN c.res = ApiError("Token has expired", 401)
              ELSE c.res = Return(PayloadOf(c.tok))
    /\ \A t \in access :
          TokenManager_verifyAccessToken(t, now).ok <=> NowSeconds(now) <= PayloadOf(t).exp

\* C19 witness: an access token has verified while the registry holds no
\* record of its user, the record stored with it having been removed.
C19_Witness ==
    \E c \in mcall :
        /\ c.op = "verifyAccess"
        /\ c.tok \in access
        /\ c.res.ok
        /\ \A j \in DOMAIN store : store[j].userId # PayloadOf(c.tok).userId
        /\ \E t \in known :
              /\ OwnerOfToken(t) = PayloadOf(c.tok).userId
              /\ JtiOfToken(t) \in deleted

(***************************************************************************)
(* Claims about the request handlers, checked under SpecRoutes.            *)
(***************************************************************************)
KindOfToken(t) == KindOf(PayloadOf(t))

\* C12: the token kind prevents cross-use: the token by which authMiddleware
\* attaches a user, or for which POST /api/auth/verify answers with success,
\* is never a refresh token, and POST /api/auth/refresh never issues a token
\* for an access token.
C12_KindPreventsCrossUse ==
    \A c \in rcall :
        /\ c.handler = "authMiddleware" => \A t \in c.by : KindOfToken(t) # "refresh"
        /\ (c.handler = "verifyToken" /\ c.res.ok)
              => \A t \in c.header : KindOfToken(t) # "refresh"
        /\ (c.handler = "refreshToken" /\ c.res.token # {})
              => \A t \in c.body : KindOfToken(t) # "access"

ActiveNow(u) == u \in DOMAIN users /\ users[u].is_active

\* C20: a missing or inactive user is unauthenticated.  The user authMiddleware
\* attaches, by the bearer token or through validateSessionFromCookie, is the
\* user of a token that verified and has an active row in the users table at
\* the read; and POST /api/auth/verify and POST /api/auth/refresh answer a
\* verified token whose user has no row or is inactive with status 401, no
\* user and no token.
C20_InactiveIsUnauthenticated ==
    \A c \in rcall :
        /\ c.handler = "authMiddleware" =>
              /\ c.by \in {{}, c.header, c.cookie}
              /\ c.by = {} <=> c.user = {}
              /\ \A t \in c.by :
                    /\ Verify(t, c.at).ok
                    /\ c.user = {PayloadOf(t).userId}
                    /\ ActiveNow(PayloadOf(t).userId)
        /\ c.handler \in {"verifyToken", "refreshToken"} =>
              \A t \in (IF c.handler = "verifyToken" THEN c.header ELSE c.body) :
                  (Verify(t, c.at).ok /\ ~ActiveNow(PayloadOf(t).userId))
                      => /\ ~c.res.ok
                         /\ c.res.status = 401
                         /\ c.res.token = {}
                         /\ c.res.user = {}

\* C20 witness: authMiddleware has attached no user to a request whose bearer
\* token and session cookie both verify, the user of the one having been
\* switched inactive and the user of the other having no row.
C20_Witness ==
    \E c \in rcall :
        /\ c.handler = "authMiddleware"
        /\ c.user = {}
        /\ \E t \in c.header :
              /\ Verify(t, c.at).ok
              /\ PayloadOf(t).userId \in DOMAIN users
              /\ ~users[PayloadOf(t).userId].is_active
        /\ \E t \in c.cookie :
              /\ Verify(t, c.at).ok
              /\ PayloadOf(t).userId \notin DOMAIN users

\* C25: after any sequence of TokenManager operations, every record of
\* refreshTokenStore sits under the jti of a refresh token generateTokenPair
\* returned, with that token's userId and its exp in milliseconds; and a
\* generateTokenPair call that has just returned added exactly one record, under
\* the jti of the refresh token it returned, left every other record as it was,
\* and reported the access-token lifetime of 900 s.
C25_RegistryInvariant ==
    /\ \A j \in DOMAIN store :
          \E t \in known :
              /\ KindOfToken(t) = "refresh"
              /\ JtiOfToken(t) = j
              /\ store[j].userId = OwnerOfToken(t)
              /\ store[j].expiresAt = PayloadOf(t).exp * 1000
    /\ \A c \in mcall :
          (c.op = "generate" /\ c.res.ok) =>
              LET j == JtiOfToken(c.res.value.refreshToken)
              IN  /\ j \notin DOMAIN c.storeBefore
                  /\ DOMAIN store = DOMAIN c.storeBefore \cup {j}
                  /\ \A k \in DOMAIN c.storeBefore : store[k] = c.storeBefore[k]
                  /\ c.res.value.refreshToken \in known
                  /\ c.res.value.expiresIn = 900

\* C25 witness: a generateTokenPair call has returned on a registry that already
\* held a record, and the registry now holds that record and the new one.
C25_Witness ==
    \E c \in mcall :
        /\ c.op = "generate"
        /\ c.res.ok
        /\ DOMAIN c.storeBefore # {}
        /\ Cardinality(DOMAIN store) = Cardinality(DOMAIN c.storeBefore) + 1

(***************************************************************************)
(* Claims on hasPermission (SpecPerm).                                     *)
(***************************************************************************)
KnownRoles == {"user", "collaborator", "admin"}
Rank(role) == CASE role = "user" -> 0 [] role = "collaborator" -> 1 [] role = "admin" -> 2

\* C22: hasPermission(actualRole, requiredRole) is true exactly when both roles
\* are known and rank(actualRole) >= rank(requiredRole) under user = 0 <
\* collaborator = 1 < admin = 2; it is false for every unknown actualRole
\* whatever the requirement and for every unknown requiredRole whatever the
\* actual role.
C22_PermissionIsRankOrder ==
    \A c \in pcall :
        c.res <=> ( /\ c.userRole \in KnownRoles
                    /\ c.requiredRole \in KnownRoles
                    /\ Rank(c.userRole) >= Rank(c.requiredRole) )

(***************************************************************************)
(* Claims on the base64url codec (SpecCodec).                              *)
(***************************************************************************)
Chars(str) == {str[i] : i \in 1..Len(str)}

\* C27: for every string b of code units 0..255 (a byte sequence), the empty
\* one included, base64UrlDecode(base64UrlEncode(b)) = b, and the encoded form
\* contains none of '+', '/' and '='.
C27_CodecRoundTrip ==
    \A c \in ccall :
        /\ c.decoded = c.input
        /\ Chars(c.encoded) \cap {Plus, Slash, Equals} = {}

\* C27 witness: a round trip has been made on an input holding a byte above
\* 127 whose plain base64 form holds '/' or '+' and ends in padding.
C27_Witness ==
    \E c \in ccall :
        /\ \E x \in Chars(c.input) : x > 127
        /\ Chars(Btoa(Utf8Encode(c.input))) \cap {Plus, Slash} # {}
        /\ Equals \in Chars(Btoa(Utf8Encode(c.input)))
        /\ c.decoded = c.input

\* The users a token would authenticate at this clock reading and table.
Authenticates(tokens, db, ms) == UNION {UserOfToken(t, db, ms) : t \in tokens}

\* C26: extractTokenFromHeader returns the rest of the header only when the
\* header starts with 'Bearer ', and null for an absent header and for every
\* other form; authMiddleware always returns a context, and with an absent
\* header, a header of another form, 'Bearer ' followed by nothing, or a token
\* that fails verification (and no session cookie that validates) the context
\* carries no user.
C26_AnonymousNotError ==
    \A c \in rcall :
        c.handler = "authMiddleware" =>
            /\ \A h \in c.authorization :
                  IF h.prefix = "Bearer " THEN c.token = {h.rest} ELSE c.token = {}
            /\ c.authorization = {} => c.token = {}
            /\ "user" \in DOMAIN c
            /\ ( /\ \/ c.token = {}
                    \/ c.token = {EmptyString}
                    \/ \A t \in c.token : ~Verify(t, c.at).ok
                 /\ \/ c.cookie = {}
                    \/ \A t \in c.cookie : ~Verify(t, c.at).ok )
               => c.user = {}

\* C26 witness: authMiddleware has returned an anonymous context for a request
\* whose Authorization header carries, under a scheme other than 'Bearer ',
\* an access token that would have authenticated its user.
C26_Witness ==
    \E c \in rcall :
        /\ c.handler = "authMiddleware"
        /\ \E h \in c.authorization :
              /\ h.prefix # "Bearer "
              /\ Authenticates({h.rest}, users, c.at) # {}
        /\ c.cookie = {}
        /\ c.user = {}

(***************************************************************************)
(* Claims on rateLimitMiddleware (SpecRate).                               *)
(***************************************************************************)
\* C28: under every interleaving of requests with the same key, at most
\* maxRequests requests are let through in a window; and a request that finds
\* the stored count at maxRequests or above throws 'Rate limit exceeded' (429)
\* and leaves the counter as it was.
C28_RateLimitHolds ==
    /\ \A w \in DOMAIN admitted : admitted[w] <= MaxRequests
    /\ \A c \in rlcall :
          c.count >= MaxRequests =>
              /\ c.res = ApiError("Rate limit exceeded", 429)
              /\ rlCache = c.cacheBefore

(***************************************************************************)
(* Claims on the user-administration routes (SpecAdmin).                   *)
(***************************************************************************)
ActiveAdmins == {u \in DOMAIN users : users[u].role = "admin" /\ users[u].is_active}

\* C29: from a table with an active administrator, after any interleaving of
\* updateUserRole, toggleUserStatus and deleteUser requests at least one
\* active administrator remains; and a request of an administrator aimed at
\* the administrator's own account is answered with status 400 and leaves the
\* table as it was.
C29_AdminRemains ==
    /\ ActiveAdmins # {}
    /\ \A c \in adone :
          (\E u \in c.user : u.role = "admin" /\ u.id = c.userId /\ c.role # "owner")
              => c.res.status = 400 /\ users = c.usersBefore

\* The role claim of the token a request carried.
ClaimedRole(c) == PayloadOf(c.token).role

\* C30: a request is authorized by the role its user has in the users table
\* when authMiddleware loads the row, not by the role claim of its token: it
\* is refused with 403 exactly when that stored role is not admin, and with 401
\* when the user has no active row.
C30_StoredRoleDecides ==
    \A c \in adone :
        /\ c.res.status = 401 <=> c.user = {}
        /\ c.user # {} =>
              /\ \A u \in c.user : {u.role} = c.storedRole
              /\ c.res.status = 403 <=> c.storedRole # {"admin"}

\* C30 witness: after updateUserRole took the admin role from a user, a request
\* of that user with the old token, whose role claim is still admin, has been
\* refused with 403.
C30_Witness ==
    \E c \in adone :
        /\ ClaimedRole(c) = "admin"
        /\ c.storedRole = {"user"}
        /\ c.user # {}
        /\ c.res.status = 403

====
